---- MODULE Spec2Model ----
(***************************************************************************)
(* Model of prisma-generator-zero's schema transformation engine           *)
(* (src/src/mappers/schemaMapper.ts) and of the helpers it calls.          *)
(*                                                                         *)
(* Identifiers (model names, field names, relation names, type names) are  *)
(* sequences of one-character strings, so that case conversion, string     *)
(* concatenation and string ordering are computed character by character.  *)
(* The empty sequence stands for null / undefined / "" alike: the code     *)
(* only ever tests such values for truthiness.                             *)
(***************************************************************************)
EXTENDS Integers, Sequences, FiniteSets, TLC

(***************************************************************************)
(* Characters                                                              *)
(***************************************************************************)
LowerChars ==
    << "a","b","c","d","e","f","g","h","i","j","k","l","m",
       "n","o","p","q","r","s","t","u","v","w","x","y","z" >>

UpperChars ==
    << "A","B","C","D","E","F","G","H","I","J","K","L","M",
       "N","O","P","Q","R","S","T","U","V","W","X","Y","Z" >>

DigitChars == << "0","1","2","3","4","5","6","7","8","9" >>

Range(s) == { s[i] : i \in DOMAIN s }

LowerSet == Range(LowerChars)

UpperSet == Range(UpperChars)

DigitSet == Range(DigitChars)

Chars == LowerSet \cup UpperSet \cup DigitSet \cup {"_"}

IndexIn(s, c) == CHOOSE i \in DOMAIN s : s[i] = c

\* String.prototype.toLowerCase / toUpperCase on one character
lowerOf ==
    [ c \in Chars |-> IF c \in UpperSet THEN LowerChars[IndexIn(UpperChars, c)] ELSE c ]

upperOf ==
    [ c \in Chars |-> IF c \in LowerSet THEN UpperChars[IndexIn(LowerChars, c)] ELSE c ]

\* UTF-16 code unit of a character: the order used by Array.prototype.sort()
codeOf ==
    [ c \in Chars |->
        IF c \in DigitSet THEN 47 + IndexIn(DigitChars, c)
        ELSE IF c \in UpperSet THEN 64 + IndexIn(UpperChars, c)
        ELSE IF c = "_" THEN 95
        ELSE 96 + IndexIn(LowerChars, c) ]

\* Primary collation weight of a character under String.prototype.localeCompare:
\* punctuation, then digits, then letters without regard to case
primaryOf ==
    [ c \in Chars |->
        IF c = "_" THEN 0
        ELSE IF c \in DigitSet THEN IndexIn(DigitChars, c)
        ELSE 10 + IndexIn(LowerChars, lowerOf[c]) ]

\* Tertiary collation weight: lower case sorts before upper case
tertiaryOf == [ c \in Chars |-> IF c \in UpperSet THEN 1 ELSE 0 ]

lower(s) == [ i \in DOMAIN s |-> lowerOf[s[i]] ]

IsAlnum(c) == c # "_"

(***************************************************************************)
(* change-case's camelCase, as imported by schemaMapper.ts                 *)
(***************************************************************************)
\* A word boundary between s[i] and s[i+1]: lower|digit followed by upper, or
\* upper followed by upper+lower
SplitBoundary(s, i) ==
    \/ /\ s[i] \in LowerSet \cup DigitSet
       /\ s[i+1] \in UpperSet
    \/ /\ s[i] \in UpperSet
       /\ s[i+1] \in UpperSet
       /\ i + 2 <= Len(s)
       /\ s[i+2] \in LowerSet

Flush(words, cur) == IF cur = << >> THEN words ELSE Append(words, cur)

RECURSIVE SplitFrom(_, _, _, _)
SplitFrom(s, i, cur, words) ==
    IF i > Len(s) THEN Flush(words, cur)
    ELSE IF ~IsAlnum(s[i]) THEN SplitFrom(s, i + 1, << >>, Flush(words, cur))
    ELSE IF i < Len(s) /\ IsAlnum(s[i+1]) /\ SplitBoundary(s, i)
         THEN SplitFrom(s, i + 1, << >>, Append(words, Append(cur, s[i])))
         ELSE SplitFrom(s, i + 1, Append(cur, s[i]), words)

split(s) == SplitFrom(s, 1, << >>, << >>)

\* The transform of every word but the first
pascalCaseTransform(word) ==
    LET initial == IF word[1] \in DigitSet THEN << "_", word[1] >> ELSE << upperOf[word[1]] >>
    IN  initial \o lower(Tail(word))

RECURSIVE JoinWords(_, _)
JoinWords(words, index) ==
    IF index > Len(words) THEN << >>
    ELSE (IF index = 1 THEN lower(words[index]) ELSE pascalCaseTransform(words[index]))
         \o JoinWords(words, index + 1)

camelCase(s) == JoinWords(split(s), 1)

(***************************************************************************)
(* Name policy of schemaMapper.ts                                          *)
(***************************************************************************)
RECURSIVE PrefixLen(_, _)
PrefixLen(s, i) == IF i <= Len(s) /\ s[i] = "_" THEN PrefixLen(s, i + 1) ELSE i - 1

toCamelCase(str) ==
    LET n == PrefixLen(str, 1)
        prefix == SubSeq(str, 1, n)
        rest == SubSeq(str, n + 1, Len(str))
    IN  prefix \o camelCase(rest)

getTableName(tableName, remapTablesToCamelCase) ==
    IF remapTablesToCamelCase THEN toCamelCase(tableName) ELSE tableName

TableSuffix == << "T","a","b","l","e" >>

getZeroTableName(str) == getTableName(str, TRUE) \o TableSuffix

(***************************************************************************)
(* Small helpers standing for JavaScript built-ins                         *)
(***************************************************************************)
\* The null / undefined / "" value of a string-valued property
Null == << >>

Truthy(v) == v # << >>

\* Array.prototype.includes
Includes(arr, x) == \E i \in DOMAIN arr : arr[i] = x

\* Array.prototype.findIndex, 1-based; 0 when nothing matches
FindIndex(arr, P(_)) ==
    IF \E i \in DOMAIN arr : P(arr[i])
    THEN CHOOSE i \in DOMAIN arr : P(arr[i]) /\ \A j \in 1..(i - 1) : ~P(arr[j])
    ELSE 0

\* A Record<string, V> is a sequence of [key, value] entries in insertion order
Has(rec, k) == \E i \in DOMAIN rec : rec[i].key = k

Get(rec, k) == rec[CHOOSE i \in DOMAIN rec : rec[i].key = k].value

\* rec[k] = v: overwrites in place, or appends a new key
Put(rec, k, v) ==
    IF Has(rec, k)
    THEN [ i \in DOMAIN rec |-> IF rec[i].key = k THEN [key |-> k, value |-> v] ELSE rec[i] ]
    ELSE Append(rec, [key |-> k, value |-> v])

Keys(rec) == [ i \in DOMAIN rec |-> rec[i].key ]

Values(rec) == [ i \in DOMAIN rec |-> rec[i].value ]

\* String.prototype.localeCompare(a, b) < 0: primary weights decide first, the
\* case of the first differing character breaks a primary tie
RECURSIVE PrimaryCmp(_, _)
PrimaryCmp(a, b) ==
    IF a = << >> /\ b = << >> THEN 0
    ELSE IF a = << >> THEN -1
    ELSE IF b = << >> THEN 1
    ELSE IF primaryOf[Head(a)] < primaryOf[Head(b)] THEN -1
    ELSE IF primaryOf[Head(a)] > primaryOf[Head(b)] THEN 1
    ELSE PrimaryCmp(Tail(a), Tail(b))

RECURSIVE TertiaryCmp(_, _)
TertiaryCmp(a, b) ==
    IF a = << >> \/ b = << >> THEN 0
    ELSE IF tertiaryOf[Head(a)] < tertiaryOf[Head(b)] THEN -1
    ELSE IF tertiaryOf[Head(a)] > tertiaryOf[Head(b)] THEN 1
    ELSE TertiaryCmp(Tail(a), Tail(b))

localeCompare(a, b) ==
    LET p == PrimaryCmp(a, b) IN IF p # 0 THEN p ELSE TertiaryCmp(a, b)

\* The default comparison of Array.prototype.sort(): UTF-16 code units
RECURSIVE OrdinalCmp(_, _)
OrdinalCmp(a, b) ==
    IF a = << >> /\ b = << >> THEN 0
    ELSE IF a = << >> THEN -1
    ELSE IF b = << >> THEN 1
    ELSE IF codeOf[Head(a)] < codeOf[Head(b)] THEN -1
    ELSE IF codeOf[Head(a)] > codeOf[Head(b)] THEN 1
    ELSE OrdinalCmp(Tail(a), Tail(b))

\* A source table name that ignores the database-mapped name
getTableNameFromModel_NameOnly(model) == model.name

\* model.dbName || model.name
getTableNameFromModel(model) == IF Truthy(model.dbName) THEN model.dbName ELSE model.name

\* Every element of the key lists is a string here, so nothing is filtered out
ensureStringArray(arr) == arr

getImplicitManyToManyTableName(model1, model2, relationName) ==
    IF Truthy(relationName) THEN << "_" >> \o relationName
    ELSE LET first == IF OrdinalCmp(model1, model2) <= 0 THEN model1 ELSE model2
             second == IF OrdinalCmp(model1, model2) <= 0 THEN model2 ELSE model1
         IN  << "_" >> \o first \o << "T", "o" >> \o second

(***************************************************************************)
(* Type mapper                                                             *)
(***************************************************************************)
StringT == << "S","t","r","i","n","g" >>

BooleanT == << "B","o","o","l","e","a","n" >>

IntT == << "I","n","t" >>

FloatT == << "F","l","o","a","t" >>

DateTimeT == << "D","a","t","e","T","i","m","e" >>

JsonT == << "J","s","o","n" >>

BigIntT == << "B","i","g","I","n","t" >>

DecimalT == << "D","e","c","i","m","a","l" >>

\* A target type expression fn<arg>(); arg is Null for the plain column types
ZeroType(fn, arg) == [fn |-> fn, arg |-> arg]

TYPE_MAP(type) ==
    CASE type = StringT -> "string"
      [] type = BooleanT -> "boolean"
      [] type = IntT -> "number"
      [] type = FloatT -> "number"
      [] type = DateTimeT -> "number"
      [] type = JsonT -> "json"
      [] type = BigIntT -> "number"
      [] type = DecimalT -> "number"
      [] OTHER -> ""

\* A type mapper that reports every column as required
mapPrismaTypeToZero_Required(field) ==
    [ type |-> IF field.kind = "enum" THEN ZeroType("enumeration", field.type)
               ELSE ZeroType(IF TYPE_MAP(field.type) # "" THEN TYPE_MAP(field.type)
                             ELSE "string", Null),
      isOptional |-> FALSE,
      mappedName |-> IF Truthy(field.dbName) /\ field.dbName # field.name
                     THEN field.dbName ELSE Null ]

mapPrismaTypeToZero(field) ==
    LET isOptional == ~field.isRequired
        mappedName == IF Truthy(field.dbName) /\ field.dbName # field.name
                      THEN field.dbName ELSE Null
    IN  IF field.kind = "enum"
        THEN [type |-> ZeroType("enumeration", field.type),
              isOptional |-> isOptional, mappedName |-> mappedName]
        ELSE [type |-> ZeroType(IF TYPE_MAP(field.type) # "" THEN TYPE_MAP(field.type)
                                ELSE "string", Null),
              isOptional |-> isOptional, mappedName |-> mappedName]

(***************************************************************************)
(* Schema mapper                                                           *)
(***************************************************************************)
IdName == << "i","d" >>

ColA == << "A" >>

ColB == << "B" >>

ModelAKey == << "m","o","d","e","l","A" >>

ModelBKey == << "m","o","d","e","l","B" >>

\* model.fields.find((f) => f.isId)?.name, Null when there is none
IdFieldName(model) ==
    LET i == FindIndex(model.fields, LAMBDA f : f.isId)
    IN  IF i = 0 THEN Null ELSE model.fields[i].name

\* dmmf.datamodel.models.find((m) => m.name === name), as an index
FindModel(dmmf, name) == FindIndex(dmmf.models, LAMBDA m : m.name = name)

\* targetModel.fields.find((f) => f.relationName === field.relationName
\*                                && f.type === model.name), as an index
FindBackReference(targetModel, field, model) ==
    FindIndex(targetModel.fields,
              LAMBDA f : f.relationName = field.relationName /\ f.type = model.name)

\* [model1, model2].sort((a, b) => a.name.localeCompare(b.name))
SortByName(model1, model2) ==
    IF localeCompare(model1.name, model2.name) <= 0
    THEN << model1, model2 >> ELSE << model2, model1 >>

\* A column of the join model; the absent originalColumnName and mappedName read
\* as Null, like those of any other column without them
JoinColumn(name) ==
    [ type |-> ZeroType("string", Null), isOptional |-> FALSE, mappedName |-> Null,
      columnName |-> name, originalColumnName |-> Null ]

JoinDestField(m) == IF Truthy(IdFieldName(m)) THEN << IdFieldName(m) >> ELSE << >>

createImplicitManyToManyModel(model1, model2, relationName, config) ==
    LET originalTableName ==
            getImplicitManyToManyTableName(model1.name, model2.name, relationName)
        sorted == SortByName(model1, model2)
        modelA == sorted[1]
        modelB == sorted[2]
        tableName == getTableName(originalTableName, config.remapTablesToCamelCase)
    IN  [ tableName |-> tableName,
          originalTableName |-> originalTableName,
          modelName |-> originalTableName,
          zeroTableName |-> getZeroTableName(originalTableName),
          \* the literal sets neither property: reading either yields undefined
          typeName |-> Null,
          zeroVariableName |-> Null,
          columns |-> <<
              [key |-> ColA,
               value |-> JoinColumn(ColA)],
              [key |-> ColB,
               value |-> JoinColumn(ColB)] >>,
          relationships |-> <<
              [key |-> ModelAKey,
               value |-> [sourceField |-> << ColA >>,
                          destField |-> JoinDestField(modelA),
                          destSchema |-> getZeroTableName(modelA.name),
                          type |-> "one"]],
              [key |-> ModelBKey,
               value |-> [sourceField |-> << ColB >>,
                          destField |-> JoinDestField(modelB),
                          destSchema |-> getZeroTableName(modelB.name),
                          type |-> "one"]] >>,
          primaryKey |-> << ColA, ColB >> ]

\* columns[fieldName]?.columnName || fieldName
getFinalColumnName(columns, fieldName) ==
    IF Has(columns, fieldName) /\ Truthy(Get(columns, fieldName).columnName)
    THEN Get(columns, fieldName).columnName
    ELSE fieldName

getFinalColumnNames(columns, fieldNames) ==
    [ i \in DOMAIN fieldNames |-> getFinalColumnName(columns, fieldNames[i]) ]

computeTargetFinalColumnName(targetModel, originalFieldName, config) ==
    LET i == FindIndex(targetModel.fields, LAMBDA f : f.name = originalFieldName)
        targetField == targetModel.fields[i]
        baseName == IF Truthy(targetField.dbName) THEN targetField.dbName ELSE targetField.name
    IN  IF i = 0 THEN originalFieldName
        ELSE IF config.remapColumnsToCamelCase THEN toCamelCase(baseName) ELSE baseName

computeTargetFinalColumnNames(targetModel, originalFieldNames, config) ==
    [ i \in DOMAIN originalFieldNames |->
        computeTargetFinalColumnName(targetModel, originalFieldNames[i], config) ]

\* model.primaryKey?.fields || (originalIdField ? [originalIdField] : [])
OriginalPrimaryKeyFields(model) ==
    IF ~model.primaryKey.isNull THEN model.primaryKey.fields
    ELSE IF Truthy(IdFieldName(model)) THEN << IdFieldName(model) >>
    ELSE << >>

\* The many-to-many branch of mapRelationships
ManyToManyRelationship(model, targetModel, field, config, columns) ==
    LET joinTableName ==
            getImplicitManyToManyTableName(model.name, targetModel.name, field.relationName)
        modelA == SortByName(model, targetModel)[1]
        isModelA == model.name = modelA.name
        modelOriginalIdField ==
            IF Truthy(IdFieldName(model)) THEN IdFieldName(model) ELSE IdName
        targetModelOriginalIdField ==
            IF Truthy(IdFieldName(targetModel)) THEN IdFieldName(targetModel) ELSE IdName
        modelFinalIdName == getFinalColumnName(columns, modelOriginalIdField)
        targetModelFinalIdName ==
            computeTargetFinalColumnName(targetModel, targetModelOriginalIdField, config)
    IN  [ type |-> "many",
          chain |-> <<
              [sourceField |-> << modelFinalIdName >>,
               destField |-> << IF isModelA THEN ColA ELSE ColB >>,
               destSchema |-> getZeroTableName(joinTableName)],
              [sourceField |-> << IF isModelA THEN ColB ELSE ColA >>,
               destField |-> << targetModelFinalIdName >>,
               destSchema |-> getZeroTableName(targetModel.name)] >> ]

\* A one-to-many branch that lists the destination fields in reverse order
OneToManyRelationship_Reordered(model, targetModel, br, config, columns) ==
    LET originalSourceFields == ensureStringArray(OriginalPrimaryKeyFields(model))
        originalDestFields ==
            IF br # 0 THEN ensureStringArray(targetModel.fields[br].relationFromFields)
            ELSE << >>
        destFields == computeTargetFinalColumnNames(targetModel, originalDestFields, config)
    IN  [ sourceField |-> getFinalColumnNames(columns, originalSourceFields),
          destField |-> [ i \in DOMAIN destFields |-> destFields[Len(destFields) + 1 - i] ],
          destSchema |-> getZeroTableName(targetModel.name),
          type |-> "many" ]

\* The one-to-many branch of mapRelationships; br is the back-reference's index
OneToManyRelationship(model, targetModel, br, config, columns) ==
    LET originalSourceFields == ensureStringArray(OriginalPrimaryKeyFields(model))
        originalDestFields ==
            IF br # 0 THEN ensureStringArray(targetModel.fields[br].relationFromFields)
            ELSE << >>
    IN  [ sourceField |-> getFinalColumnNames(columns, originalSourceFields),
          destField |-> computeTargetFinalColumnNames(targetModel, originalDestFields, config),
          destSchema |-> getZeroTableName(targetModel.name),
          type |-> "many" ]

\* The "one" side branch of mapRelationships
OneRelationship(targetModel, field, br, config, columns) ==
    LET own == Len(field.relationFromFields) > 0
        back == br # 0 /\ Len(targetModel.fields[br].relationFromFields) > 0
        originalSourceFields ==
            IF own THEN ensureStringArray(field.relationFromFields)
            ELSE IF back THEN ensureStringArray(targetModel.fields[br].relationToFields)
            ELSE << >>
        originalDestFields ==
            IF own THEN ensureStringArray(field.relationToFields)
            ELSE IF back THEN ensureStringArray(targetModel.fields[br].relationFromFields)
            ELSE << >>
    IN  [ sourceField |-> getFinalColumnNames(columns, originalSourceFields),
          destField |-> computeTargetFinalColumnNames(targetModel, originalDestFields, config),
          destSchema |-> getZeroTableName(targetModel.name),
          type |-> "one" ]

\* The body of the forEach of mapRelationships for one relational field:
\* "throw", "skip" (the early return) or "set" with the descriptor
RelationshipStep(model, field, dmmf, config, columns) ==
    LET t == FindModel(dmmf, field.type)
        targetModel == dmmf.models[t]
        br == FindBackReference(targetModel, field, model)
    IN  IF t = 0 THEN [kind |-> "throw"]
        ELSE IF Includes(config.excludeTables, targetModel.name) THEN [kind |-> "skip"]
        ELSE IF field.isList
             THEN IF br # 0 /\ targetModel.fields[br].isList
                  THEN [kind |-> "set",
                        value |-> ManyToManyRelationship(model, targetModel, field, config, columns)]
                  ELSE [kind |-> "set",
                        value |-> OneToManyRelationship(model, targetModel, br, config, columns)]
             ELSE [kind |-> "set",
                   value |-> OneRelationship(targetModel, field, br, config, columns)]

RECURSIVE RelationshipsFrom(_, _, _, _, _, _)
RelationshipsFrom(model, fields, dmmf, config, columns, relationships) ==
    IF fields = << >> THEN [threw |-> FALSE, value |-> relationships]
    ELSE LET step == RelationshipStep(model, Head(fields), dmmf, config, columns)
         IN  IF step.kind = "throw" THEN [threw |-> TRUE, value |-> << >>]
             ELSE RelationshipsFrom(model, Tail(fields), dmmf, config, columns,
                      IF step.kind = "skip" THEN relationships
                      ELSE Put(relationships, Head(fields).name, step.value))

\* An empty value stands for the undefined the code returns for no relationship
mapRelationships(model, dmmf, config, columns) ==
    RelationshipsFrom(model,
                      SelectSeq(model.fields, LAMBDA f : Truthy(f.relationName)),
                      dmmf, config, columns, << >>)

\* A column mapping in which case conversion takes precedence over the
\* database-mapped name
ColumnMapping_RemapFirst(field, config) ==
    LET baseMapping == mapPrismaTypeToZero(field)
        remappedName ==
            IF config.remapColumnsToCamelCase THEN toCamelCase(field.name) ELSE field.name
        databaseName == IF Truthy(field.dbName) THEN field.dbName ELSE field.name
    IN  [ type |-> baseMapping.type,
          isOptional |-> baseMapping.isOptional,
          mappedName |-> baseMapping.mappedName,
          columnName |-> remappedName,
          originalColumnName |-> IF remappedName # databaseName THEN databaseName ELSE Null ]

\* The column mapping mapModel builds for one scalar field
ColumnMapping(field, config) ==
    LET baseMapping == mapPrismaTypeToZero(field)
        originalDbName == field.dbName
        prismaFieldName == field.name
        potentialCamelCaseName == toCamelCase(prismaFieldName)
        remapped == config.remapColumnsToCamelCase /\ potentialCamelCaseName # prismaFieldName
        finalSchemaKey ==
            IF Truthy(originalDbName) THEN prismaFieldName
            ELSE IF remapped THEN potentialCamelCaseName
            ELSE prismaFieldName
        nameForFromClause ==
            IF Truthy(originalDbName) THEN originalDbName
            ELSE IF remapped THEN prismaFieldName
            ELSE Null
    IN  [ type |-> baseMapping.type,
          isOptional |-> baseMapping.isOptional,
          mappedName |-> baseMapping.mappedName,
          columnName |-> finalSchemaKey,
          originalColumnName |-> nameForFromClause ]

RECURSIVE ColumnsFrom(_, _, _)
ColumnsFrom(fields, config, columns) ==
    IF fields = << >> THEN columns
    ELSE ColumnsFrom(Tail(fields), config,
                     Put(columns, Head(fields).name, ColumnMapping(Head(fields), config)))

\* A column set that also takes the list-typed scalar fields
MapColumns_WithLists(model, config) ==
    ColumnsFrom(SelectSeq(model.fields, LAMBDA f : ~Truthy(f.relationName)), config, << >>)

MapColumns(model, config) ==
    ColumnsFrom(SelectSeq(SelectSeq(model.fields, LAMBDA f : ~Truthy(f.relationName)),
                          LAMBDA f : ~f.isList),
                config, << >>)

\* A mapModel that never rejects a model for want of a primary key
HasNoPrimaryKey_Never(originalPrimaryKeyFields) == FALSE

\* !originalPrimaryKeyFields[0]
HasNoPrimaryKey(originalPrimaryKeyFields) ==
    originalPrimaryKeyFields = << >> \/ ~Truthy(originalPrimaryKeyFields[1])

\* A primary key that keeps the source field names
PrimaryKeyColumnName_Original(columns, originalFieldName) == originalFieldName

\* The final column name of one primary-key field
PrimaryKeyColumnName(columns, originalFieldName) == Get(columns, originalFieldName).columnName

\* A table remapping that records an original name whenever remapping is on
shouldRemap_Always(config, camelCasedName, tableName) == config.remapTablesToCamelCase

\* config.remapTablesToCamelCase && camelCasedName !== tableName
shouldRemap(config, camelCasedName, tableName) ==
    config.remapTablesToCamelCase /\ camelCasedName # tableName

mapModel(model, dmmf, config) ==
    LET columns == MapColumns(model, config)
        originalPrimaryKeyFields == OriginalPrimaryKeyFields(model)
        tableName == getTableNameFromModel(model)
        camelCasedName ==
            IF config.remapTablesToCamelCase THEN toCamelCase(tableName) ELSE tableName
        remap == shouldRemap(config, camelCasedName, tableName)
        rels == mapRelationships(model, dmmf, config, columns)
        pk == ensureStringArray(originalPrimaryKeyFields)
    IN  IF HasNoPrimaryKey(originalPrimaryKeyFields)
        THEN [threw |-> TRUE, error |-> "No primary key found"]
        ELSE IF rels.threw
        THEN [threw |-> TRUE, error |-> "Target model not found"]
        ELSE IF \E i \in DOMAIN pk : ~Has(columns, pk[i])
        THEN [threw |-> TRUE, error |-> "Primary key field not found in mapped columns"]
        ELSE [threw |-> FALSE,
              value |-> [ tableName |-> IF remap THEN camelCasedName ELSE tableName,
                          originalTableName |-> IF remap THEN tableName ELSE Null,
                          modelName |-> model.name,
                          zeroTableName |-> getZeroTableName(model.name),
                          \* the literal sets neither property: reading either
                          \* yields undefined
                          typeName |-> Null,
                          zeroVariableName |-> Null,
                          columns |-> columns,
                          relationships |-> rels.value,
                          primaryKey |-> [ i \in DOMAIN pk |-> PrimaryKeyColumnName(columns, pk[i]) ] ]]

\* The join model one list-typed relational field of a kept model contributes
\* in transformSchema: a one-element list, or the empty list for null
ImplicitJoinTableFor(model, field, dmmf, config) ==
    LET t == FindModel(dmmf, field.type)
        targetModel == dmmf.models[t]
        br == FindBackReference(targetModel, field, model)
    IN  IF t = 0 THEN << >>
        ELSE IF Includes(config.excludeTables, targetModel.name) THEN << >>
        ELSE IF br # 0 /\ targetModel.fields[br].isList
                /\ localeCompare(model.name, targetModel.name) < 0
             THEN << createImplicitManyToManyModel(model, targetModel, field.relationName, config) >>
             ELSE << >>

RECURSIVE JoinTablesOfFields(_, _, _, _)
JoinTablesOfFields(model, fields, dmmf, config) ==
    IF fields = << >> THEN << >>
    ELSE ImplicitJoinTableFor(model, Head(fields), dmmf, config)
         \o JoinTablesOfFields(model, Tail(fields), dmmf, config)

RECURSIVE JoinTablesOfModels(_, _, _)
JoinTablesOfModels(models, dmmf, config) ==
    IF models = << >> THEN << >>
    ELSE JoinTablesOfFields(Head(models),
                            SelectSeq(Head(models).fields,
                                      LAMBDA f : Truthy(f.relationName) /\ f.isList),
                            dmmf, config)
         \o JoinTablesOfModels(Tail(models), dmmf, config)

\* A transformSchema that passes on no enum
CopyEnums_None(dmmf) == << >>

\* [...dmmf.datamodel.enums]
CopyEnums(dmmf) == [ i \in DOMAIN dmmf.enums |-> dmmf.enums[i] ]

\* A transformSchema that forgets to drop the excluded models
FilterModels_None(dmmf, config) == dmmf.models

\* dmmf.datamodel.models.filter(model => !config.excludeTables?.includes(model.name))
FilterModels(dmmf, config) ==
    SelectSeq(dmmf.models, LAMBDA m : ~Includes(config.excludeTables, m.name))

(***************************************************************************)
(* Input documents                                                         *)
(*                                                                         *)
(* Two families of DMMF documents are explored.  Column documents hold one *)
(* model whose fields are drawn from a list of scalar field shapes; they   *)
(* exercise column, primary-key and table-name mapping.  Relation          *)
(* documents hold the models Post and Tag, with relational fields drawn    *)
(* from a list of relation shapes; they exercise relationship resolution,  *)
(* exclusion and join-model synthesis.                                     *)
(***************************************************************************)
\* The largest number of scalar fields of a column document's model
MaxFields == 3

\* The largest number of relational fields of a relation document
MaxRelFields == 2

N_id == << "i","d" >>

N_first_name == << "f","i","r","s","t","_","n","a","m","e" >>

N_firstName == << "f","i","r","s","t","N","a","m","e" >>

N_tag == << "t","a","g" >>

N_user_ref == << "u","s","e","r","_","r","e","f" >>

N_userRef == << "u","s","e","r","R","e","f" >>

N_tags == << "t","a","g","s" >>

N_role == << "r","o","l","e" >>

N_blob == << "b","l","o","b" >>

N_Role == << "R","o","l","e" >>

N_Bytes == << "B","y","t","e","s" >>

N_UserProfile == << "U","s","e","r","P","r","o","f","i","l","e" >>

N_userProfile == << "u","s","e","r","P","r","o","f","i","l","e" >>

N_User == << "U","s","e","r" >>

N_user_profile == << "u","s","e","r","_","p","r","o","f","i","l","e" >>

N_Post == << "P","o","s","t" >>

N_Tag == << "T","a","g" >>

N_Ghost == << "G","h","o","s","t" >>

N_row_id == << "r","o","w","_","i","d" >>

N_key_a == << "k","e","y","_","a" >>

N_key_b == << "k","e","y","_","b" >>

N_kb == << "k","b" >>

N_owner_id == << "o","w","n","e","r","_","i","d" >>

N_peer_id == << "p","e","e","r","_","i","d" >>

N_ref == << "r","e","f" >>

N_ref_col == << "r","e","f","_","c","o","l" >>

N_items == << "i","t","e","m","s" >>

N_owner == << "o","w","n","e","r" >>

N_peer == << "p","e","e","r" >>

N_link == << "l","i","n","k" >>

N_kids == << "k","i","d","s" >>

N_parent == << "p","a","r","e","n","t" >>

N_ghost == << "g","h","o","s","t" >>

N_mates == << "m","a","t","e","s" >>

N_R == << "P","o","s","t","T","a","g","s" >>

N_S == << "T","r","e","e" >>

N_G == << "L","o","s","t" >>

N_USER == << "U","S","E","R" >>

N_ADMIN == << "A","D","M","I","N" >>

ScalarField(name, dbName, type, kind, isRequired, isList, isId) ==
    [ name |-> name, dbName |-> dbName, type |-> type, kind |-> kind,
      isRequired |-> isRequired, isList |-> isList, isId |-> isId,
      relationName |-> Null, relationFromFields |-> << >>, relationToFields |-> << >> ]

RelationField(name, type, relationName, isList, from, to) ==
    [ name |-> name, dbName |-> Null, type |-> type, kind |-> "object",
      isRequired |-> TRUE, isList |-> isList, isId |-> FALSE,
      relationName |-> relationName, relationFromFields |-> from, relationToFields |-> to ]

Model(name, dbName, fields, primaryKey) ==
    [ name |-> name, dbName |-> dbName, fields |-> fields, primaryKey |-> primaryKey ]

NoPrimaryKey == [isNull |-> TRUE, fields |-> << >>]

PrimaryKey(fields) == [isNull |-> FALSE, fields |-> fields]

RoleEnum ==
    [ name |-> N_Role,
      values |-> << [name |-> N_USER, dbName |-> Null], [name |-> N_ADMIN, dbName |-> Null] >> ]

\* The scalar field shapes of a column document, in declaration order
ScalarShapes == <<
    ScalarField(N_id, Null, StringT, "scalar", TRUE, FALSE, TRUE),
    ScalarField(N_first_name, Null, StringT, "scalar", TRUE, FALSE, FALSE),
    ScalarField(N_firstName, Null, StringT, "scalar", FALSE, FALSE, FALSE),
    ScalarField(N_tag, N_tag, BooleanT, "scalar", TRUE, FALSE, FALSE),
    ScalarField(N_user_ref, N_userRef, IntT, "scalar", TRUE, FALSE, FALSE),
    ScalarField(N_tags, Null, StringT, "scalar", TRUE, TRUE, FALSE),
    ScalarField(N_role, Null, N_Role, "enum", FALSE, FALSE, FALSE),
    ScalarField(N_blob, Null, N_Bytes, "scalar", TRUE, FALSE, FALSE) >>

\* The elements of shapes at the indices in S, in the order of shapes
RECURSIVE Pick(_, _, _)
Pick(shapes, S, i) ==
    IF i > Len(shapes) THEN << >>
    ELSE (IF i \in S THEN << shapes[i] >> ELSE << >>) \o Pick(shapes, S, i + 1)

Reverse(s) == [ i \in DOMAIN s |-> s[Len(s) + 1 - i] ]

\* Model name and database-mapped name of a column document's model
TableShapes == {
    [name |-> N_UserProfile, dbName |-> Null],
    [name |-> N_userProfile, dbName |-> Null],
    [name |-> N_User, dbName |-> N_user_profile],
    [name |-> N_User, dbName |-> N_userProfile] }

PrimaryKeyShapes == { NoPrimaryKey, PrimaryKey(<< >>), PrimaryKey(<< N_first_name, N_user_ref >>) }

ColumnDocuments ==
    { [ models |-> << Model(t.name, t.dbName, Pick(ScalarShapes, S, 1), pk) >>,
        enums |-> IF 7 \in S THEN << RoleEnum >> ELSE << >> ] :
        t \in TableShapes, pk \in PrimaryKeyShapes,
        S \in { T \in SUBSET DOMAIN ScalarShapes : Cardinality(T) <= MaxFields } }

\* The key columns of a relation document's model, by key layout
KeyFields(layout) ==
    CASE layout = "plain" -> << ScalarField(N_id, Null, IntT, "scalar", TRUE, FALSE, TRUE) >>
      [] layout = "snake" -> << ScalarField(N_row_id, Null, StringT, "scalar", TRUE, FALSE, TRUE) >>
      [] layout = "composite" ->
            << ScalarField(N_key_a, Null, StringT, "scalar", TRUE, FALSE, FALSE),
               ScalarField(N_key_b, N_kb, IntT, "scalar", TRUE, FALSE, FALSE) >>

KeyNames(layout) ==
    CASE layout = "plain" -> << N_id >>
      [] layout = "snake" -> << N_row_id >>
      [] layout = "composite" -> << N_key_a, N_key_b >>

KeyDeclaration(layout) ==
    IF layout = "composite" THEN PrimaryKey(KeyNames(layout)) ELSE NoPrimaryKey

\* The foreign-key columns every model of a relation document holds
ForeignKeyFields == <<
    ScalarField(N_owner_id, Null, StringT, "scalar", FALSE, FALSE, FALSE),
    ScalarField(N_peer_id, Null, IntT, "scalar", FALSE, FALSE, FALSE),
    ScalarField(N_ref, N_ref_col, IntT, "scalar", FALSE, FALSE, FALSE) >>

\* The relational field shapes of model self towards model other, whose key
\* layout is otherLayout, in declaration order
RelationShapes(self, selfLayout, other, otherLayout) == <<
    RelationField(N_items, other, N_R, TRUE, << >>, << >>),
    RelationField(N_owner, other, N_R, FALSE,
                  IF otherLayout = "composite" THEN << N_owner_id, N_peer_id >> ELSE << N_owner_id >>,
                  KeyNames(otherLayout)),
    RelationField(N_peer, other, N_R, FALSE, << >>, << >>),
    RelationField(N_link, other, N_R, FALSE, << N_ref >>, << >>),
    RelationField(N_kids, self, N_S, TRUE, << >>, << >>),
    RelationField(N_parent, self, N_S, FALSE, << N_owner_id >>, << KeyNames(selfLayout)[1] >>),
    RelationField(N_mates, self, N_S, TRUE, << >>, << >>),
    RelationField(N_ghost, N_Ghost, N_G, FALSE, << N_ref >>, << N_id >>) >>

NumRelationShapes == Len(RelationShapes(N_Post, "plain", N_Tag, "plain"))

KeyLayouts ==
    { << "plain", "plain" >>, << "snake", "plain" >>,
      << "snake", "composite" >>, << "composite", "snake" >> }

RelationModel(self, selfLayout, other, otherLayout, S, reversed) ==
    LET rels == Pick(RelationShapes(self, selfLayout, other, otherLayout), S, 1)
    IN  Model(self, Null,
              KeyFields(selfLayout) \o ForeignKeyFields
                  \o (IF reversed THEN Reverse(rels) ELSE rels),
              KeyDeclaration(selfLayout))

\* The relational fields chosen for the two models: at most MaxRelFields in all
RelationChoices ==
    { c \in (SUBSET (1..NumRelationShapes)) \X (SUBSET (1..NumRelationShapes)) :
        Cardinality(c[1]) + Cardinality(c[2]) <= MaxRelFields }

RelationDocuments ==
    { [ models |-> << RelationModel(N_Post, k[1], N_Tag, k[2], c[1], reversed),
                      RelationModel(N_Tag, k[2], N_Post, k[1], c[2], reversed) >>,
        enums |-> << >> ] :
        k \in KeyLayouts,
        c \in RelationChoices,
        reversed \in BOOLEAN }

N_post == << "p","o","s","t" >>

\* Pairs of model names whose order or whose camel-cased form depends on case
NamePairs ==
    { << N_Tag, N_post >>, << N_post, N_Tag >>, << N_UserProfile, N_user_profile >> }

\* Two models with an id key each, alone or joined by one many-to-many relation
NamingDocuments ==
    { [ models |-> << RelationModel(p[1], "plain", p[2], "plain", S, FALSE),
                      RelationModel(p[2], "plain", p[1], "plain", S, FALSE) >>,
        enums |-> << >> ] :
        p \in NamePairs,
        S \in { {}, {1} } }

Configs(excludes) ==
    [ remapTablesToCamelCase : BOOLEAN,
      remapColumnsToCamelCase : BOOLEAN,
      excludeTables : excludes ]

(***************************************************************************)
(* transformSchema as a state machine                                      *)
(***************************************************************************)
VARIABLES
    dmmf,               \* the input document: [models, enums]
    config,             \* the generator configuration
    pc,                 \* position in transformSchema
    filteredModels,     \* the models that are not excluded
    models,             \* the transformed models so far
    implicitJoinTables, \* the synthesized join models
    result,             \* << >> until transformSchema returns, then << schema >>
    error,              \* the message of the error thrown, "" when none
    conversion,         \* a call of toCamelCase on its own: argument and results
    generation,         \* a call of onGenerate: its options, position and effects
    versioned           \* runs of the versioning onGenerate over one output file

vars ==
    << dmmf, config, pc, filteredModels, models, implicitJoinTables, result, error,
       conversion, generation, versioned >>

\* No call of onGenerate is under way
NoGeneration == [pc |-> "off"]

\* The versioning onGenerate is not running
NoVersioned == [pc |-> "off"]

\* No call of toCamelCase on its own is under way
NoConversion == [step |-> "none", str |-> << >>, once |-> << >>, twice |-> << >>]

Init ==
    /\ \/ /\ dmmf \in ColumnDocuments
          /\ config \in Configs({ << >> })
       \/ /\ dmmf \in RelationDocuments
          /\ config \in Configs({ << >>, << N_Tag >> })
       \/ /\ dmmf \in NamingDocuments
          /\ config \in Configs({ << >> })
    /\ pc = "start"
    /\ filteredModels = << >>
    /\ models = << >>
    /\ implicitJoinTables = << >>
    /\ result = << >>
    /\ error = ""
    /\ conversion = NoConversion
    /\ generation = NoGeneration
    /\ versioned = NoVersioned

\* const filteredModels = dmmf.datamodel.models.filter(...)
Filter ==
    /\ pc = "start"
    /\ filteredModels' = FilterModels(dmmf, config)
    /\ pc' = "map"
    /\ UNCHANGED << conversion, generation, versioned, dmmf, config, models, implicitJoinTables, result, error >>

\* One iteration of filteredModels.map((model) => mapModel(model, dmmf, config))
\* that returns
MapModelReturns ==
    /\ pc = "map"
    /\ Len(models) < Len(filteredModels)
    /\ LET r == mapModel(filteredModels[Len(models) + 1], dmmf, config)
       IN  /\ ~r.threw
           /\ models' = Append(models, r.value)
    /\ UNCHANGED << conversion, generation, versioned, dmmf, config, pc, filteredModels, implicitJoinTables, result, error >>

\* One iteration that throws: transformSchema is left without a result
MapModelThrows ==
    /\ pc = "map"
    /\ Len(models) < Len(filteredModels)
    /\ LET r == mapModel(filteredModels[Len(models) + 1], dmmf, config)
       IN  /\ r.threw
           /\ error' = r.error
    /\ pc' = "thrown"
    /\ UNCHANGED << conversion, generation, versioned, dmmf, config, filteredModels, models, implicitJoinTables, result >>

\* const implicitJoinTables = filteredModels.flatMap(...)
SynthesizeJoinTables ==
    /\ pc = "map"
    /\ Len(models) = Len(filteredModels)
    /\ implicitJoinTables' = JoinTablesOfModels(filteredModels, dmmf, config)
    /\ pc' = "joins"
    /\ UNCHANGED << conversion, generation, versioned, dmmf, config, filteredModels, models, result, error >>

\* return { models: [...models, ...implicitJoinTables], enums: [...dmmf.datamodel.enums] }
Return ==
    /\ pc = "joins"
    /\ result' = << [models |-> models \o implicitJoinTables, enums |-> CopyEnums(dmmf)] >>
    /\ pc' = "returned"
    /\ UNCHANGED << conversion, generation, versioned, dmmf, config, filteredModels, models, implicitJoinTables, error >>

Next ==
    \/ Filter
    \/ MapModelReturns
    \/ MapModelThrows
    \/ SynthesizeJoinTables
    \/ Return

Spec == Init /\ [][Next]_vars

(***************************************************************************)
(* toCamelCase on its own: the identifiers up to MaxLen characters over    *)
(* Alphabet are converted once, and the result is converted again          *)
(***************************************************************************)
\* The largest length of an identifier handed to toCamelCase
MaxLen == 4

Alphabet == { "a", "b", "B", "C", "1", "_" }

Identifiers == UNION { [1..n -> Alphabet] : n \in 0..MaxLen }

InitCase ==
    /\ dmmf = [models |-> << >>, enums |-> << >>]
    /\ config = [remapTablesToCamelCase |-> TRUE, remapColumnsToCamelCase |-> TRUE,
                 excludeTables |-> << >>]
    /\ pc = "start"
    /\ filteredModels = << >>
    /\ models = << >>
    /\ implicitJoinTables = << >>
    /\ result = << >>
    /\ error = ""
    /\ \E str \in Identifiers :
          conversion = [step |-> "called", str |-> str, once |-> << >>, twice |-> << >>]
    /\ generation = NoGeneration
    /\ versioned = NoVersioned

\* toCamelCase(str)
Convert ==
    /\ conversion.step = "called"
    /\ conversion' = [conversion EXCEPT !.step = "once", !.once = toCamelCase(conversion.str)]
    /\ UNCHANGED << generation, versioned, dmmf, config, pc, filteredModels, models,
                    implicitJoinTables, result, error >>

\* toCamelCase(toCamelCase(str))
ConvertAgain ==
    /\ conversion.step = "once"
    /\ conversion' = [conversion EXCEPT !.step = "twice", !.twice = toCamelCase(conversion.once)]
    /\ UNCHANGED << generation, versioned, dmmf, config, pc, filteredModels, models,
                    implicitJoinTables, result, error >>

NextCase ==
    \/ Convert
    \/ ConvertAgain

SpecCase == InitCase /\ [][NextCase]_vars

TypeOK ==
    /\ pc \in { "idle", "start", "map", "joins", "returned", "thrown" }
    /\ Len(result) <= 1
    /\ (result # << >>) = (pc = "returned")
    /\ (error # "") = (pc = "thrown")

(***************************************************************************)
(* onGenerate: the options are read, transformSchema runs as the state     *)
(* machine above, the code is generated and, on request, formatted, and    *)
(* then the directory is made and the file written                         *)
(***************************************************************************)
\* The values a generator block hands over for a configuration key
Undefined == [kind |-> "undefined"]

Str(text) == [kind |-> "string", text |-> text]

Arr(items) == [kind |-> "array", items |-> items]

TrueText == << "t","r","u","e" >>

FalseText == << "f","a","l","s","e" >>

OutputDir == << "o","u","t" >>

\* value === true || value === "true", for the values of a generator block
parseBooleanConfig(value, defaultValue) ==
    IF value = Undefined THEN defaultValue
    ELSE value = Str(TrueText)

\* !(value === false || value === "false")
parseBooleanConfigDefaultTrue(value) ==
    IF value = Undefined THEN TRUE
    ELSE ~(value = Str(FalseText))

\* A loadExcludeTables that takes whatever is not an array for no exclusion
loadExcludeTables_Lenient(generator) ==
    IF generator.config.excludeTables.kind = "array"
    THEN [threw |-> FALSE, value |-> generator.config.excludeTables.items]
    ELSE [threw |-> FALSE, value |-> << >>]

loadExcludeTables(generator) ==
    IF generator.config.excludeTables = Undefined
    THEN [threw |-> FALSE, value |-> << >>]
    ELSE IF generator.config.excludeTables.kind # "array"
    THEN [threw |-> TRUE, value |-> << >>]
    ELSE [threw |-> FALSE, value |-> generator.config.excludeTables.items]

\* The documents handed to onGenerate: one model with an identity field, one
\* model without any key, and two models joined by a many-to-many relation
GenerateDocuments ==
    { [models |-> << Model(N_UserProfile, Null, << ScalarShapes[1] >>, NoPrimaryKey) >>,
       enums |-> << >>],
      [models |-> << Model(N_UserProfile, Null, << ScalarShapes[2] >>, NoPrimaryKey) >>,
       enums |-> << >>],
      [models |-> << RelationModel(N_Post, "plain", N_Tag, "plain", {1}, FALSE),
                     RelationModel(N_Tag, "plain", N_Post, "plain", {1}, FALSE) >>,
       enums |-> << >>] }

\* The generator blocks handed to onGenerate
Generators ==
    [ output : { Null, OutputDir },
      config : [ prettier : { Undefined, Str(TrueText), Str(FalseText) },
                 resolvePrettierConfig : { Undefined, Str(FalseText) },
                 remapTablesToCamelCase : { Undefined, Str(TrueText) },
                 remapColumnsToCamelCase : { Undefined },
                 excludeTables : { Undefined, Arr(<< N_Tag >>), Str(N_Tag) } ] ]

NoOutput == [generated |-> FALSE, schema |-> << >>, formatted |-> FALSE]

InitGenerate ==
    /\ dmmf \in GenerateDocuments
    /\ config = Null
    /\ pc = "idle"
    /\ filteredModels = << >>
    /\ models = << >>
    /\ implicitJoinTables = << >>
    /\ result = << >>
    /\ error = ""
    /\ conversion = NoConversion
    /\ versioned = NoVersioned
    /\ \E g \in Generators, installed \in BOOLEAN :
          generation = [ pc |-> "start",
                         generator |-> g,
                         prettierInstalled |-> installed,
                         prettier |-> FALSE,
                         resolvePrettierConfig |-> FALSE,
                         output |-> NoOutput,
                         calls |-> << >>,
                         error |-> "" ]

\* if (!outputDir) throw new Error("Output directory is required")
RequireOutputDir ==
    /\ generation.pc = "start"
    /\ generation' =
          IF ~Truthy(generation.generator.output)
          THEN [generation EXCEPT !.pc = "thrown", !.error = "Output directory is required"]
          ELSE [generation EXCEPT !.pc = "config"]
    /\ UNCHANGED << conversion, versioned, dmmf, config, pc, filteredModels, models,
                    implicitJoinTables, result, error >>

\* const config = {...}, and the call of transformSchema(dmmf, config)
LoadConfig ==
    /\ generation.pc = "config"
    /\ LET g == generation.generator
           excludeTables == loadExcludeTables(g)
       IN  IF excludeTables.threw
           THEN /\ generation' = [generation EXCEPT !.pc = "thrown",
                                     !.error = "excludeTables must be an array"]
                /\ UNCHANGED << config, pc >>
           ELSE /\ generation' =
                      [generation EXCEPT
                          !.pc = "transform",
                          !.prettier = parseBooleanConfig(g.config.prettier, FALSE),
                          !.resolvePrettierConfig =
                              parseBooleanConfigDefaultTrue(g.config.resolvePrettierConfig)]
                /\ config' =
                      [ remapTablesToCamelCase |->
                            parseBooleanConfig(g.config.remapTablesToCamelCase, FALSE),
                        remapColumnsToCamelCase |->
                            parseBooleanConfig(g.config.remapColumnsToCamelCase, FALSE),
                        excludeTables |-> excludeTables.value ]
                /\ pc' = "start"
    /\ UNCHANGED << conversion, versioned, dmmf, filteredModels, models,
                    implicitJoinTables, result, error >>

\* transformSchema threw: onGenerate rejects with its error
TransformSchemaThrows ==
    /\ generation.pc = "transform"
    /\ pc = "thrown"
    /\ generation' = [generation EXCEPT !.pc = "thrown", !.error = error]
    /\ UNCHANGED << conversion, versioned, dmmf, config, pc, filteredModels, models,
                    implicitJoinTables, result, error >>

\* let output = generateCode(transformedSchema, config)
GenerateCode ==
    /\ generation.pc = "transform"
    /\ pc = "returned"
    /\ generation' =
          [generation EXCEPT
              !.pc = IF generation.prettier THEN "import" ELSE "mkdir",
              !.output = [generated |-> TRUE, schema |-> result[1], formatted |-> FALSE]]
    /\ UNCHANGED << conversion, versioned, dmmf, config, pc, filteredModels, models,
                    implicitJoinTables, result, error >>

\* prettier = await import("prettier"), or the error thrown in its place
ImportPrettier ==
    /\ generation.pc = "import"
    /\ generation' =
          IF ~generation.prettierInstalled
          THEN [generation EXCEPT !.pc = "thrown",
                                  !.error = "Unable import Prettier. Is it installed?"]
          ELSE [generation EXCEPT
                   !.pc = IF generation.resolvePrettierConfig THEN "resolve" ELSE "format"]
    /\ UNCHANGED << conversion, versioned, dmmf, config, pc, filteredModels, models,
                    implicitJoinTables, result, error >>

\* await prettier.resolveConfig(outputFile): resolves or rejects
ResolvePrettierConfig ==
    /\ generation.pc = "resolve"
    /\ \E resolves \in BOOLEAN :
          generation' =
              IF resolves THEN [generation EXCEPT !.pc = "format"]
              ELSE [generation EXCEPT !.pc = "thrown", !.error = "resolveConfig rejected"]
    /\ UNCHANGED << conversion, versioned, dmmf, config, pc, filteredModels, models,
                    implicitJoinTables, result, error >>

\* output = await prettier.format(output, ...): resolves or rejects
FormatOutput ==
    /\ generation.pc = "format"
    /\ \E resolves \in BOOLEAN :
          generation' =
              IF resolves
              THEN [generation EXCEPT !.pc = "mkdir", !.output.formatted = TRUE]
              ELSE [generation EXCEPT !.pc = "thrown", !.error = "format rejected"]
    /\ UNCHANGED << conversion, versioned, dmmf, config, pc, filteredModels, models,
                    implicitJoinTables, result, error >>

\* await mkdir(outputDir, { recursive: true }): called, then resolves or rejects
MakeDirectory ==
    /\ generation.pc = "mkdir"
    /\ \E resolves \in BOOLEAN :
          generation' =
              IF resolves
              THEN [generation EXCEPT !.pc = "write", !.calls = Append(@, "mkdir")]
              ELSE [generation EXCEPT !.pc = "thrown", !.calls = Append(@, "mkdir"),
                                      !.error = "mkdir rejected"]
    /\ UNCHANGED << conversion, versioned, dmmf, config, pc, filteredModels, models,
                    implicitJoinTables, result, error >>

\* await writeFile(join(outputDir, outputFile), output)
WriteOutput ==
    /\ generation.pc = "write"
    /\ \E resolves \in BOOLEAN :
          generation' =
              IF resolves
              THEN [generation EXCEPT !.pc = "done", !.calls = Append(@, "writeFile")]
              ELSE [generation EXCEPT !.pc = "thrown", !.calls = Append(@, "writeFile"),
                                      !.error = "writeFile rejected"]
    /\ UNCHANGED << conversion, versioned, dmmf, config, pc, filteredModels, models,
                    implicitJoinTables, result, error >>

NextGenerate ==
    \/ RequireOutputDir
    \/ LoadConfig
    \/ Filter
    \/ MapModelReturns
    \/ MapModelThrows
    \/ SynthesizeJoinTables
    \/ Return
    \/ TransformSchemaThrows
    \/ GenerateCode
    \/ ImportPrettier
    \/ ResolvePrettierConfig
    \/ FormatOutput
    \/ MakeDirectory
    \/ WriteOutput

SpecGenerate == InitGenerate /\ [][NextGenerate]_vars

(***************************************************************************)
(* The versioning onGenerate: every run reads the schema.ts of the output  *)
(* directory, settles the version, and writes schema.ts anew               *)
(***************************************************************************)
\* The largest number of runs over one output directory
MaxRuns == 3

\* let output = `// Generated by Zero Schema Generator\n\n`
HeaderText ==
    << "/","/"," ","G","e","n","e","r","a","t","e","d"," ","b","y"," ","Z",
       "e","r","o"," ","S","c","h","e","m","a"," ","G","e","n","e","r","a",
       "t","o","r","\n","\n" >>

\* The import line, for a configuration without permissionsPath
ImportText ==
    << "i","m","p","o","r","t"," ","{"," ","d","e","f","i","n","e","P","e",
       "r","m","i","s","s","i","o","n","s",","," ","c","r","e","a","t","e",
       "S","c","h","e","m","a",","," ","R","o","w",","," ","t","a","b","l",
       "e",","," ","s","t","r","i","n","g",","," ","b","o","o","l","e","a",
       "n",","," ","n","u","m","b","e","r",","," ","j","s","o","n",","," ",
       "e","n","u","m","e","r","a","t","i","o","n",","," ","r","e","l","a",
       "t","i","o","n","s","h","i","p","s"," ","}"," ","f","r","o","m"," ",
       "\"","@","r","o","c","i","c","o","r","p","/","z","e","r","o","\"",";",
       "\n","\n" >>

DefineEnumsText ==
    << "/","/"," ","D","e","f","i","n","e"," ","e","n","u","m","s","\n","\n" >>

DefineSchemasText ==
    << "/","/"," ","D","e","f","i","n","e"," ","s","c","h","e","m","a","s",
       "\n","\n" >>

DefineSchemaText ==
    << "/","/"," ","D","e","f","i","n","e"," ","s","c","h","e","m","a","\n",
       "\n" >>

CreateSchemaText ==
    << "e","x","p","o","r","t"," ","c","o","n","s","t"," ","s","c","h","e",
       "m","a"," ","="," ","c","r","e","a","t","e","S","c","h","e","m","a",
       "(","\n" >>

DefineTypesText ==
    << "/","/"," ","D","e","f","i","n","e"," ","t","y","p","e","s","\n","e",
       "x","p","o","r","t"," ","t","y","p","e"," ","S","c","h","e","m","a",
       " ","="," ","t","y","p","e","o","f"," ","s","c","h","e","m","a",";",
       "\n" >>

\* The permissions block, for a configuration without permissionsPath
PermissionsText ==
    << "\n","/","/"," ","D","e","f","i","n","e"," ","p","e","r","m","i","s",
       "s","i","o","n","s","\n","\n","/","/"," ","I","m","p","o","r","t","a",
       "n","t",":"," ","c","u","r","r","e","n","t","l","y"," ","n","o"," ",
       "p","e","r","m","i","s","s","i","o","n","s"," ","a","r","e"," ","g",
       "e","n","e","r","a","t","e","d"," ","s","o"," ","e","v","e","y"," ",
       "o","p","e","r","a","t","i","o","n"," ","i","s"," ","a","l","l","o",
       "w","e","d","!"," ","\n","\n","\n","e","x","p","o","r","t"," ","c",
       "o","n","s","t"," ","p","e","r","m","i","s","s","i","o","n","s"," ",
       "="," ","d","e","f","i","n","e","P","e","r","m","i","s","s","i","o",
       "n","s","(","s","c","h","e","m","a",","," ","(",")"," ","=",">"," ",
       "(","{","}",")",")",";"," ","\n","\n" >>

DoNotTouchText ==
    << "/","/"," ","D","O"," ","N","O","T"," ","T","O","U","C","H"," ","T",
       "H","I","S","."," ","T","h","e"," ","s","c","h","e","m","a"," ","h",
       "a","s","h"," ","i","s"," ","u","s","e","d"," ","t","o"," ","d","e",
       "t","e","r","m","i","n","e"," ","i","f"," ","t","h","e"," ","s","c",
       "h","e","m","a"," ","h","a","s"," ","c","h","a","n","g","e","d"," ",
       "a","n","d"," ","c","o","r","r","e","c","t","l","y"," ","u","p","d",
       "a","t","e"," ","t","h","e"," ","v","e","r","s","i","o","n",".","\n" >>

SchemaHashText ==
    << "/","/"," ","S","c","h","e","m","a"," ","h","a","s","h",":"," " >>

\* The literal part of /version:\s*(\d+)/
VersionPattern ==
    << "v","e","r","s","i","o","n",":" >>

\* The literal part of /Schema hash: ([a-f0-9]+)/
HashPattern ==
    << "S","c","h","e","m","a"," ","h","a","s","h",":"," " >>

\* A schema.ts that holds a version property and the hash of the first document
LegacyText ==
    << "e","x","p","o","r","t"," ","c","o","n","s","t"," ","s","c","h","e",
       "m","a"," ","="," ","{","\n"," "," ","v","e","r","s","i","o","n",":",
       " ","5",",","\n","}",";","\n","/","/"," ","S","c","h","e","m","a"," ",
       "h","a","s","h",":"," ","a","3","f","0","\n" >>

RECURSIVE Flatten(_)
Flatten(texts) ==
    IF texts = << >> THEN << >> ELSE Head(texts) \o Flatten(Tail(texts))

\* The decimal digits of a natural number
RECURSIVE DigitsOf(_)
DigitsOf(n) ==
    IF n < 10 THEN << DigitChars[n + 1] >>
    ELSE DigitsOf(n \div 10) \o << DigitChars[(n % 10) + 1] >>

\* `${n}` for an integer n
NumberToString(n) == IF n < 0 THEN << "-" >> \o DigitsOf(0 - n) ELSE DigitsOf(n)

DigitValue(c) == (CHOOSE i \in DOMAIN DigitChars : DigitChars[i] = c) - 1

\* parseInt(digits, 10) for a run of decimal digits
RECURSIVE parseInt(_)
parseInt(digits) ==
    IF digits = << >> THEN 0
    ELSE 10 * parseInt(SubSeq(digits, 1, Len(digits) - 1)) + DigitValue(digits[Len(digits)])

IsDigits(text) == text # << >> /\ \A i \in DOMAIN text : text[i] \in Range(DigitChars)

\* Number(text) for the texts explored: the empty text is 0, an optional
\* sign followed by decimal digits is that integer, anything else is NaN
Number(text) ==
    IF text = << >> THEN [nan |-> FALSE, value |-> 0]
    ELSE IF IsDigits(text) THEN [nan |-> FALSE, value |-> parseInt(text)]
    ELSE IF Head(text) = "-" /\ IsDigits(Tail(text))
    THEN [nan |-> FALSE, value |-> 0 - parseInt(Tail(text))]
    ELSE [nan |-> TRUE, value |-> 0]

WhiteSpace == { " ", "\n", "\t", "\r" }

HexChars == Range(DigitChars) \cup { "a", "b", "c", "d", "e", "f" }

\* The end of the longest run of characters of set that starts at position i
RECURSIVE RunEnd(_, _, _)
RunEnd(content, i, set) ==
    IF i <= Len(content) /\ content[i] \in set THEN RunEnd(content, i + 1, set) ELSE i

\* The positions of content at which the literal text starts
Occurrences(content, text) ==
    { i \in 1..(Len(content) - Len(text) + 1) :
        SubSeq(content, i, i + Len(text) - 1) = text }

\* content.match(/version:\s*(\d+)/): the first group of the leftmost match,
\* or the empty text when nothing matches
versionMatch(content) ==
    LET starts == { i \in Occurrences(content, VersionPattern) :
                      LET d == RunEnd(content, i + Len(VersionPattern), WhiteSpace)
                      IN  RunEnd(content, d, Range(DigitChars)) > d }
        first == CHOOSE i \in starts : \A j \in starts : i <= j
        d == RunEnd(content, first + Len(VersionPattern), WhiteSpace)
    IN  IF starts = {} THEN << >>
        ELSE SubSeq(content, d, RunEnd(content, d, Range(DigitChars)) - 1)

\* content.match(/Schema hash: ([a-f0-9]+)/), likewise
hashMatch(content) ==
    LET starts == { i \in Occurrences(content, HashPattern) :
                      RunEnd(content, i + Len(HashPattern), HexChars)
                          > i + Len(HashPattern) }
        first == CHOOSE i \in starts : \A j \in starts : i <= j
        d == first + Len(HashPattern)
    IN  IF starts = {} THEN << >>
        ELSE SubSeq(content, d, RunEnd(content, d, HexChars) - 1)

\* getCurrentVersion: a file that cannot be read gives version 0 and no hash;
\* the empty hash stands for null
getCurrentVersion(file) ==
    IF ~file.exists THEN [version |-> 0, hash |-> Null]
    ELSE [ version |-> IF versionMatch(file.content) # << >>
                       THEN parseInt(versionMatch(file.content)) ELSE 0,
           hash |-> hashMatch(file.content) ]

N_version == << "v","e","r","s","i","o","n" >>

\* The documents of the runs: a model with an id, the same with a column
\* named version, and the same with a column first_name
VersionDocuments == <<
    [models |-> << Model(N_User, Null, << ScalarShapes[1] >>, NoPrimaryKey) >>,
     enums |-> << >>],
    [models |-> << Model(N_User, Null,
                         << ScalarShapes[1],
                            ScalarField(N_version, Null, IntT, "scalar", TRUE, FALSE, FALSE) >>,
                         NoPrimaryKey) >>,
     enums |-> << >>],
    [models |-> << Model(N_User, N_user_profile,
                         << ScalarShapes[1], ScalarShapes[2] >>, NoPrimaryKey) >>,
     enums |-> << RoleEnum >>] >>

\* The hexadecimal digests of the documents: one digest per document
SchemaHashes == << << "a","3","f","0" >>, << "0","7","c","e" >>, << "e","5","b","9" >> >>

\* generateSchemaHash: the digest of the structure of the document
generateSchemaHash(doc) ==
    SchemaHashes[CHOOSE i \in DOMAIN VersionDocuments : VersionDocuments[i] = doc]

\* The value typeMap holds for a type, or "string" for a type it does not hold
ZeroTypeText(type) ==
    IF type = StringT THEN << "s","t","r","i","n","g","(",")" >>
    ELSE IF type = BooleanT THEN << "b","o","o","l","e","a","n","(",")" >>
    ELSE IF type \in { IntT, FloatT, DateTimeT, BigIntT, DecimalT } THEN << "n","u","m","b","e","r","(",")" >>
    ELSE IF type = JsonT THEN << "j","s","o","n","(",")" >>
    ELSE << "s","t","r","i","n","g" >>

mapPrismaTypeToZeroType(field) ==
    field.name \o << ":"," " >> \o
    (IF field.kind = "enum"
     THEN << "e","n","u","m","e","r","a","t","i","o","n","<" >> \o field.type \o << ">","(",")" >>
          \o (IF field.isRequired THEN << >> ELSE << ".","o","p","t","i","o","n","a","l","(",")" >>)
     ELSE ZeroTypeText(field.type)
          \o (IF field.isRequired THEN << >> ELSE << ".","o","p","t","i","o","n","a","l","(",")" >>))

\* model.dbName || model.name, of the versioning generator
VersionedTableName(model) == IF Truthy(model.dbName) THEN model.dbName ELSE model.name

\* The text of one enum declaration
EnumText(enumType) ==
    << "e","x","p","o","r","t"," ","e","n","u","m"," " >> \o enumType.name \o << " ","{","\n" >>
    \o Flatten([ i \in DOMAIN enumType.values |->
                   << " "," " >> \o enumType.values[i].name \o << " ","="," ","\"" >>
                   \o (IF Truthy(enumType.values[i].dbName)
                       THEN enumType.values[i].dbName ELSE enumType.values[i].name)
                   \o << "\"",",","\n" >> ])
    \o << "}","\n","\n" >>

\* A model has neither primaryKey.fields nor a field marked as id
LacksPrimaryKey(model) ==
    (model.primaryKey.isNull \/ model.primaryKey.fields = << >>)
    /\ ~Truthy(IdFieldName(model))

\* JSON.stringify(primaryKey): an array of names, or the name of the id field
PrimaryKeyJson(model) ==
    IF ~model.primaryKey.isNull
    THEN (<< "[" >>
          \o Flatten([ i \in DOMAIN model.primaryKey.fields |->
                         (IF i > 1 THEN << "," >> ELSE << >>)
                         \o << "\"" >> \o model.primaryKey.fields[i] \o << "\"" >> ])
          \o << "]" >>)
    ELSE << "\"" >> \o IdFieldName(model) \o << "\"" >>

\* The text of the table definition of one model
ModelSchemaText(model) ==
    << "c","o","n","s","t"," " >> \o model.name \o << "S","c","h","e","m","a"," ","="," ","t","a","b","l","e","(","\"" >> \o VersionedTableName(model)
    \o << "\"",")","\n" >>
    \o << " "," ",".","c","o","l","u","m","n","s","(","{","\n" >>
    \o Flatten([ i \in DOMAIN SelectSeq(model.fields, LAMBDA f : ~Truthy(f.relationName)) |->
                   << " "," "," "," " >>
                   \o mapPrismaTypeToZeroType(
                          SelectSeq(model.fields, LAMBDA f : ~Truthy(f.relationName))[i])
                   \o << ",","\n" >> ])
    \o << " "," ","}",")","\n" >>
    \o << " "," ",".","p","r","i","m","a","r","y","K","e","y","(" >> \o PrimaryKeyJson(model) \o << ")","\n","\n" >>

\* generateRelationships for a model without relational fields
RelationshipsText(model) ==
    << " ","c","o","n","s","t"," " >> \o model.name \o << "R","e","l","a","t","i","o","n","s","h","i","p","s"," ","="," ","r","e","l","a","t","i","o","n","s","h","i","p","s","(" >> \o model.name
    \o << "S","c","h","e","m","a",",","(","{","}",")","=",">","(","{" >> \o << "}",")",")"," " >> \o << "\n","\n" >>

\* The text onGenerate builds, for a configuration without permissionsPath
OutputText(doc, schemaVersion, newHash) ==
    LET ms == doc.models
    IN  HeaderText \o ImportText
        \o (IF Len(doc.enums) > 0
            THEN DefineEnumsText \o Flatten([ i \in DOMAIN doc.enums |-> EnumText(doc.enums[i]) ])
            ELSE << >>)
        \o (IF Len(ms) > 0
            THEN DefineSchemasText
                 \o Flatten([ i \in DOMAIN ms |-> ModelSchemaText(ms[i]) ])
                 \o Flatten([ i \in DOMAIN ms |-> RelationshipsText(ms[i]) ])
                 \o << "\n","\n" >>
            ELSE << >>)
        \o DefineSchemaText
        \o CreateSchemaText
        \o << " "," " >> \o NumberToString(schemaVersion) \o << ",","\n" >>
        \o << " "," ","{","\n" >>
        \o Flatten([ i \in DOMAIN ms |->
                       << " "," "," "," " >> \o VersionedTableName(ms[i]) \o << ":"," " >> \o ms[i].name
                       \o << "S","c","h","e","m","a",",","\n" >> ])
        \o << " "," ","}",",","\n" >>
        \o << " "," ","{","\n" >>
        \o Flatten([ i \in DOMAIN ms |->
                       << " "," "," "," " >> \o ms[i].name \o << "R","e","l","a","t","i","o","n","s","h","i","p","s",",","\n" >> ])
        \o << " "," ","}","\n" >>
        \o << ")",";","\n","\n" >>
        \o DefineTypesText
        \o Flatten([ i \in DOMAIN ms |->
                       << "e","x","p","o","r","t"," ","t","y","p","e"," " >> \o ms[i].name
                       \o << " ","="," ","R","o","w","<","t","y","p","e","o","f"," ","s","c","h","e","m","a",".","t","a","b","l","e","s","." >> \o ms[i].name \o << ">",";","\n" >> ])
        \o PermissionsText
        \o DoNotTouchText
        \o SchemaHashText \o newHash \o << "\n" >>

\* The generator blocks of the runs: schemaVersion absent, empty, numeric or not
VersionedGenerators ==
    [ output : { OutputDir },
      config : [ schemaVersion :
                     { Undefined, Str(<< >>), Str(<< "0" >>), Str(<< "7" >>), Str(<< "1","0" >>),
                       Str(<< "-","3" >>), Str(<< "x" >>) } ] ]

\* The schema.ts found by the first run: none, or one of an earlier layout
InitialFiles ==
    { [exists |-> FALSE, content |-> << >>],
      [exists |-> TRUE, content |-> LegacyText] }

InitVersioned ==
    /\ dmmf = [models |-> << >>, enums |-> << >>]
    /\ config = Null
    /\ pc = "idle"
    /\ filteredModels = << >>
    /\ models = << >>
    /\ implicitJoinTables = << >>
    /\ result = << >>
    /\ error = ""
    /\ conversion = NoConversion
    /\ generation = NoGeneration
    /\ \E g \in VersionedGenerators, file \in InitialFiles :
          versioned = [ pc |-> "idle",
                        generator |-> g,
                        initial |-> file,
                        file |-> file,
                        doc |-> VersionDocuments[1],
                        newHash |-> << >>,
                        current |-> [version |-> 0, hash |-> Null],
                        schemaVersion |-> 0,
                        output |-> << >>,
                        runs |-> 0,
                        history |-> << >>,
                        error |-> "" ]

\* A test of the configured schemaVersion that takes the value for a number,
\* so that 0 counts as not configured
schemaVersionConfigured_AsNumber(raw) ==
    raw # Undefined /\ Truthy(raw.text) /\ Number(raw.text).value # 0

\* The truthiness of generator.config.schemaVersion, a string when present:
\* every text but the empty one
schemaVersionConfigured(raw) == raw # Undefined /\ Truthy(raw.text)

\* onGenerate is called with some document: the output directory is required,
\* and the hash of the document is computed
CallOnGenerate ==
    /\ versioned.pc = "idle"
    /\ versioned.runs < MaxRuns
    /\ \E i \in DOMAIN VersionDocuments :
          versioned' =
              IF ~Truthy(versioned.generator.output)
              THEN [versioned EXCEPT !.runs = @ + 1,
                                     !.error = "Output directory is required"]
              ELSE [versioned EXCEPT !.pc = "read",
                                     !.doc = VersionDocuments[i],
                                     !.newHash = generateSchemaHash(VersionDocuments[i]),
                                     !.error = ""]
    /\ UNCHANGED << conversion, generation, dmmf, config, pc, filteredModels, models,
                    implicitJoinTables, result, error >>

\* getCurrentVersion, nextAutoincrementVersion, the check of a configured
\* schemaVersion, and config.schemaVersion
SettleVersion ==
    /\ versioned.pc = "read"
    /\ LET cur == getCurrentVersion(versioned.file)
           nextAutoincrementVersion ==
               IF cur.hash # versioned.newHash THEN cur.version + 1 ELSE cur.version
           raw == versioned.generator.config.schemaVersion
           configured == schemaVersionConfigured(raw)
       IN  versioned' =
              IF configured /\ Number(raw.text).nan
              THEN [versioned EXCEPT !.pc = "idle", !.runs = @ + 1, !.current = cur,
                                     !.error = "Schema version must be a number"]
              ELSE [versioned EXCEPT
                       !.pc = "emit",
                       !.current = cur,
                       !.schemaVersion =
                           IF configured THEN Number(raw.text).value
                           ELSE nextAutoincrementVersion]
    /\ UNCHANGED << conversion, generation, dmmf, config, pc, filteredModels, models,
                    implicitJoinTables, result, error >>

\* The output is built, unless a model has no primary key; prettier is not
\* configured in the runs explored, so the output is written as built
EmitSchema ==
    /\ versioned.pc = "emit"
    /\ versioned' =
          IF \E i \in DOMAIN versioned.doc.models : LacksPrimaryKey(versioned.doc.models[i])
          THEN [versioned EXCEPT !.pc = "idle", !.runs = @ + 1,
                                 !.error = "No primary key found"]
          ELSE [versioned EXCEPT
                   !.pc = "write",
                   !.output = OutputText(versioned.doc, versioned.schemaVersion,
                                         versioned.newHash)]
    /\ UNCHANGED << conversion, generation, dmmf, config, pc, filteredModels, models,
                    implicitJoinTables, result, error >>

\* mkdir and writeFile: schema.ts now holds the output
WriteSchema ==
    /\ versioned.pc = "write"
    /\ versioned' =
          [versioned EXCEPT
              !.pc = "idle",
              !.runs = @ + 1,
              !.file = [exists |-> TRUE, content |-> versioned.output],
              !.history = Append(@, [ version |-> versioned.schemaVersion,
                                      hash |-> versioned.newHash,
                                      before |-> versioned.file ])]
    /\ UNCHANGED << conversion, generation, dmmf, config, pc, filteredModels, models,
                    implicitJoinTables, result, error >>

NextVersioned ==
    \/ CallOnGenerate
    \/ SettleVersion
    \/ EmitSchema
    \/ WriteSchema

SpecVersioned == InitVersioned /\ [][NextVersioned]_vars

(***************************************************************************)
(* Vocabulary of the properties                                            *)
(***************************************************************************)
Returned == pc = "returned"

Thrown == pc = "thrown"

Schema == result[1]

Excluded(name) == Includes(config.excludeTables, name)

KeptModels == { m \in Range(dmmf.models) : ~Excluded(m.name) }

HasTransformed(m) == \E zm \in Range(Schema.models) : zm.modelName = m.name

Transformed(m) == CHOOSE zm \in Range(Schema.models) : zm.modelName = m.name

\* The models of the returned schema that were synthesized, not transformed
JoinModels == { zm \in Range(Schema.models) : \A m \in Range(dmmf.models) : zm.modelName # m.name }

IsRelational(f) == Truthy(f.relationName)

ScalarColumns(m) == SelectSeq(m.fields, LAMBDA f : ~IsRelational(f) /\ ~f.isList)

RelationalFields(m) == SelectSeq(m.fields, LAMBDA f : IsRelational(f))

HasIdentity(m) == \E i \in DOMAIN m.fields : m.fields[i].isId

HasDeclaredKey(m) == ~m.primaryKey.isNull /\ Len(m.primaryKey.fields) >= 1

LacksKey(m) == ~HasDeclaredKey(m) /\ ~HasIdentity(m)

\* The model whose turn it is in the mapping loop
AtModel == pc = "map" /\ Len(models) < Len(filteredModels)

CurrentModel == filteredModels[Len(models) + 1]

(***************************************************************************)
(* C1: transformSchema either throws or returns a schema in which every    *)
(* model, real or synthesized, has a non-empty primaryKey; with a kept     *)
(* model that has neither a declared key of at least one field nor an      *)
(* identity field, the mapping loop never completes, nothing is returned,  *)
(* and the step at that model can only throw.                              *)
(***************************************************************************)
C1_PrimaryKeyOrThrow ==
    /\ Returned => \A zm \in Range(Schema.models) : zm.primaryKey # << >>
    /\ (\E m \in KeptModels : LacksKey(m)) =>
          /\ pc \notin { "joins", "returned" }
          /\ ~(pc = "map" /\ Len(models) = Len(filteredModels))
          /\ result = << >>
    /\ (AtModel /\ LacksKey(CurrentModel)) =>
          (ENABLED MapModelThrows) /\ ~(ENABLED MapModelReturns)

C1_Witness ==
    /\ Thrown
    /\ error = "No primary key found"
    /\ \E m \in KeptModels : LacksKey(m)
    /\ result = << >>

(***************************************************************************)
(* C2: for every kept model with a declared composite primary key, the     *)
(* transformed primaryKey has the length of the declared key and its i-th  *)
(* entry is the columnName under which the model emits the i-th declared   *)
(* key field.                                                              *)
(***************************************************************************)
C2_CompositeKeyResolved ==
    Returned =>
        \A m \in KeptModels :
            HasDeclaredKey(m) =>
                /\ HasTransformed(m)
                /\ LET zm == Transformed(m)
                       declared == m.primaryKey.fields
                   IN  /\ Len(zm.primaryKey) = Len(declared)
                       /\ \A i \in DOMAIN declared :
                             /\ Has(zm.columns, declared[i])
                             /\ zm.primaryKey[i] = Get(zm.columns, declared[i]).columnName

\* A composite key one of whose columns is renamed and the other is not
C2_Witness ==
    /\ Returned
    /\ \E m \in KeptModels :
          /\ m.primaryKey = PrimaryKey(<< N_first_name, N_user_ref >>)
          /\ HasTransformed(m)
          /\ Transformed(m).primaryKey = << N_firstName, N_user_ref >>

Links(rel) ==
    IF "chain" \in DOMAIN rel THEN rel.chain ELSE << rel >>

\* The resolved column names of the returned model emitted as zeroTableName
ColumnNamesOf(zeroTableName) ==
    UNION { { zm.columns[i].value.columnName : i \in DOMAIN zm.columns } :
              zm \in { x \in Range(Schema.models) : x.zeroTableName = zeroTableName } }

(***************************************************************************)
(* C4: in every column mapping of the returned schema, originalColumnName  *)
(* is present only when the resolved columnName differs from the true      *)
(* database column name: the field's database-mapped name if it has one,   *)
(* otherwise the field name.                                               *)
(***************************************************************************)
C4_OriginalOnlyWhenDifferent ==
    Returned =>
        \A m \in KeptModels :
            HasTransformed(m) =>
                \A i \in DOMAIN ScalarColumns(m) :
                    LET f == ScalarColumns(m)[i]
                        c == Get(Transformed(m).columns, f.name)
                        databaseName == IF Truthy(f.dbName) THEN f.dbName ELSE f.name
                    IN  Truthy(c.originalColumnName) => c.columnName # databaseName

(***************************************************************************)
(* C5: within every model of the returned schema the resolved column       *)
(* names are pairwise distinct, under both settings of                     *)
(* remapColumnsToCamelCase.                                                *)
(***************************************************************************)
C5_ColumnNamesDistinct ==
    Returned =>
        \A zm \in Range(Schema.models) :
            \A i, j \in DOMAIN zm.columns :
                i # j => zm.columns[i].value.columnName # zm.columns[j].value.columnName

(***************************************************************************)
(* C6: in every relationship of a real model, each sourceField name is a   *)
(* resolved columnName of the model that owns the link and each destField  *)
(* name is a resolved columnName of the destination model; towards and     *)
(* from a join entity the names are its fixed columns A and B.             *)
(***************************************************************************)
C6_FieldsAreResolvedColumns ==
    Returned =>
        \A m \in KeptModels :
            HasTransformed(m) =>
                LET zm == Transformed(m)
                    own == { zm.columns[i].value.columnName : i \in DOMAIN zm.columns }
                    AB == { ColA, ColB }
                IN  \A r \in DOMAIN zm.relationships :
                        LET rel == zm.relationships[r].value
                        IN  IF "chain" \in DOMAIN rel
                            THEN /\ Range(rel.chain[1].sourceField) \subseteq own
                                 /\ Range(rel.chain[1].destField) \subseteq AB
                                 /\ Range(rel.chain[2].sourceField) \subseteq AB
                                 /\ Range(rel.chain[2].destField)
                                        \subseteq ColumnNamesOf(rel.chain[2].destSchema)
                            ELSE /\ Range(rel.sourceField) \subseteq own
                                 /\ Range(rel.destField) \subseteq ColumnNamesOf(rel.destSchema)

(***************************************************************************)
(* C7: in every relationship descriptor and every chain link of the        *)
(* returned schema, join models included, sourceField and destField are    *)
(* non-empty and have the same length.                                     *)
(***************************************************************************)
C7_FieldsNonEmptySameLength ==
    Returned =>
        \A zm \in Range(Schema.models) :
            \A r \in DOMAIN zm.relationships :
                \A l \in Range(Links(zm.relationships[r].value)) :
                    /\ Len(l.sourceField) >= 1
                    /\ Len(l.destField) = Len(l.sourceField)

(***************************************************************************)
(* C8: whatever excludeTables holds, the returned schema has no model      *)
(* whose modelName is excluded, no relationship for a relational field     *)
(* that targets an excluded model, and no join model one of whose          *)
(* participants is excluded; every relational field of a remaining model   *)
(* that targets a non-excluded model keeps its relationship; and when      *)
(* transformSchema throws, it also throws for the same document with       *)
(* nothing excluded.                                                       *)
(***************************************************************************)
C8_ExclusionDropsAndKeeps ==
    /\ Returned =>
          /\ \A zm \in Range(Schema.models) : ~Excluded(zm.modelName)
          /\ \A m \in KeptModels :
                /\ HasTransformed(m)
                /\ \A i \in DOMAIN RelationalFields(m) :
                      LET f == RelationalFields(m)[i]
                      IN  Has(Transformed(m).relationships, f.name) = ~Excluded(f.type)
          /\ \A zm \in JoinModels :
                \A r \in DOMAIN zm.relationships :
                    \A e \in Range(config.excludeTables) :
                        zm.relationships[r].value.destSchema # getZeroTableName(e)
    /\ Thrown =>
          \E m \in Range(dmmf.models) :
              mapModel(m, dmmf, [config EXCEPT !.excludeTables = << >>]).threw

\* Tag is excluded; Post is returned without its relationship to Tag and with
\* its relationship to itself
C8_Witness ==
    /\ Returned
    /\ config.excludeTables = << N_Tag >>
    /\ \A zm \in Range(Schema.models) : zm.modelName # N_Tag
    /\ \E m \in KeptModels :
          /\ m.name = N_Post
          /\ \E i \in DOMAIN m.fields : m.fields[i].name = N_items /\ m.fields[i].type = N_Tag
          /\ HasTransformed(m)
          /\ ~Has(Transformed(m).relationships, N_items)
          /\ Has(Transformed(m).relationships, N_parent)

(***************************************************************************)
(* C9: for every list-typed relational field of a kept model whose target  *)
(* is not excluded and whose back-reference is also list-typed, a model    *)
(* related to itself included, the returned schema holds exactly one join  *)
(* model for that pair of models and relation name.                        *)
(***************************************************************************)
C9_ExactlyOneJoinModel ==
    Returned =>
        \A m \in KeptModels :
            \A i \in DOMAIN RelationalFields(m) :
                LET f == RelationalFields(m)[i]
                    t == FindModel(dmmf, f.type)
                    targetModel == dmmf.models[t]
                    br == FindBackReference(targetModel, f, m)
                    joinName == getImplicitManyToManyTableName(m.name, targetModel.name,
                                                               f.relationName)
                IN  (/\ f.isList
                     /\ t # 0
                     /\ ~Excluded(f.type)
                     /\ br # 0
                     /\ targetModel.fields[br].isList)
                    => Cardinality({ k \in DOMAIN Schema.models :
                                       Schema.models[k].modelName = joinName }) = 1

(***************************************************************************)
(* C10: in every join model, column A has the target type of the identity  *)
(* field of the participant its relationship modelA leads to, column B     *)
(* that of the participant of modelB, and both columns are non-optional.   *)
(***************************************************************************)
C10_JoinColumnsTypedByIdentity ==
    Returned =>
        \A zm \in JoinModels :
            \A side \in { << ColA, ModelAKey >>, << ColB, ModelBKey >> } :
                \A m \in KeptModels :
                    (/\ getZeroTableName(m.name) = Get(zm.relationships, side[2]).destSchema
                     /\ HasIdentity(m))
                    => LET id == m.fields[FindIndex(m.fields, LAMBDA f : f.isId)]
                           c == Get(zm.columns, side[1])
                       IN  /\ c.type = mapPrismaTypeToZero(id).type
                           /\ ~c.isOptional

\* The participant of a join model its relationship key leads to
Participant(zm, key) ==
    CHOOSE m \in KeptModels : getZeroTableName(m.name) = Get(zm.relationships, key).destSchema

\* The name under which the transformed model of m emits its identity column
IdentityColumnName(m) == Get(Transformed(m).columns, IdFieldName(m)).columnName

(***************************************************************************)
(* C11: every join model has primaryKey [A, B] and exactly the two         *)
(* relationships modelA and modelB, of type one, with sourceField [A] and  *)
(* [B]; the destField of each is the name under which the transformed      *)
(* model of that participant emits its identity column, whenever the       *)
(* participant has an identity field.                                      *)
(***************************************************************************)
C11_JoinRelationshipsResolved ==
    Returned =>
        \A zm \in JoinModels :
            /\ zm.primaryKey = << ColA, ColB >>
            /\ Keys(zm.relationships) = << ModelAKey, ModelBKey >>
            /\ \A side \in { << ColA, ModelAKey >>, << ColB, ModelBKey >> } :
                  LET rel == Get(zm.relationships, side[2])
                      m == Participant(zm, side[2])
                  IN  /\ rel.type = "one"
                      /\ rel.sourceField = << side[1] >>
                      /\ HasIdentity(m) => rel.destField = << IdentityColumnName(m) >>

\* Field f of model m is one side of an implicit many-to-many relation between
\* models that are not excluded
IsManyToMany(m, f) ==
    LET t == FindModel(dmmf, f.type)
        targetModel == dmmf.models[t]
        br == FindBackReference(targetModel, f, m)
    IN  /\ IsRelational(f)
        /\ f.isList
        /\ t # 0
        /\ ~Excluded(f.type)
        /\ br # 0
        /\ targetModel.fields[br].isList

(***************************************************************************)
(* C12: when a participant of an implicit many-to-many relation between    *)
(* kept models has no identity-flagged field, transformSchema returns no   *)
(* schema.                                                                 *)
(***************************************************************************)
C12_MissingIdentityThrows ==
    (\E m \in KeptModels :
        \E i \in DOMAIN m.fields :
            /\ IsManyToMany(m, m.fields[i])
            /\ \/ ~HasIdentity(m)
               \/ ~HasIdentity(dmmf.models[FindModel(dmmf, m.fields[i].type)]))
    => /\ ~Returned
       /\ result = << >>

\* Fields i and j of model m are the two sides of a self-referential
\* one-to-many relation: i the list-typed side, j the side with the local keys
IsSelfOneToMany(m, i, j) ==
    /\ IsRelational(m.fields[i])
    /\ m.fields[i].relationName = m.fields[j].relationName
    /\ m.fields[i].type = m.name
    /\ m.fields[j].type = m.name
    /\ m.fields[i].isList
    /\ ~m.fields[j].isList

(***************************************************************************)
(* C13: for a self-referential one-to-many relation, in either order of    *)
(* declaration, the back-reference of each of the two fields is the other  *)
(* field, and the list-typed field yields a direct relationship of type    *)
(* many whose destField holds the columns of the other field's local keys. *)
(***************************************************************************)
C13_SelfBackReferenceIsOtherField ==
    Returned =>
        \A m \in KeptModels :
            \A i, j \in DOMAIN m.fields :
                IsSelfOneToMany(m, i, j) =>
                    LET zm == Transformed(m)
                        rel == Get(zm.relationships, m.fields[i].name)
                        keys == m.fields[j].relationFromFields
                    IN  /\ FindBackReference(m, m.fields[i], m) = j
                        /\ FindBackReference(m, m.fields[j], m) = i
                        /\ "chain" \notin DOMAIN rel
                        /\ rel.type = "many"
                        /\ rel.destField =
                               [ k \in DOMAIN keys |-> Get(zm.columns, keys[k]).columnName ]

\* The names under which the transformed model of m emits the given fields
ResolvedNames(m, fieldNames) ==
    [ k \in DOMAIN fieldNames |-> Get(Transformed(m).columns, fieldNames[k]).columnName ]

SourceTableName(m) == IF Truthy(m.dbName) THEN m.dbName ELSE m.name

LeadingUnderscores(str) == SubSeq(str, 1, PrefixLen(str, 1))

(***************************************************************************)
(* C16: toCamelCase keeps the leading run of underscores of its argument   *)
(* as the leading run of underscores of its result, converting it again    *)
(* changes nothing, and the empty string is converted to the empty string. *)
(***************************************************************************)
C16_CamelCaseIdempotent ==
    /\ conversion.step \in { "once", "twice" } =>
          /\ LeadingUnderscores(conversion.once) = LeadingUnderscores(conversion.str)
          /\ conversion.str = << >> => conversion.once = << >>
    /\ conversion.step = "twice" => conversion.twice = conversion.once

\* The target type the lookup table gives a field that is not of enum kind
ExpectedType(f) ==
    IF f.kind = "enum" THEN ZeroType("enumeration", f.type)
    ELSE IF f.type = BooleanT THEN ZeroType("boolean", Null)
    ELSE IF f.type \in { IntT, FloatT, DateTimeT, BigIntT, DecimalT } THEN ZeroType("number", Null)
    ELSE IF f.type = JsonT THEN ZeroType("json", Null)
    ELSE ZeroType("string", Null)

\* Fields of every primitive kind of the lookup table, of a kind outside it and
\* of an enum type, required and not
TypedFields ==
    { ScalarField(N_blob, Null, type, kind, isRequired, FALSE, FALSE) :
        type \in { StringT, BooleanT, IntT, FloatT, DateTimeT, JsonT, BigIntT, DecimalT,
                   N_Bytes, N_Role },
        kind \in { "scalar", "enum" },
        isRequired \in BOOLEAN }

(***************************************************************************)
(* C17: mapPrismaTypeToZero gives every field isOptional equal to the      *)
(* negation of its required flag, an enum-kind field the type              *)
(* enumeration<T>() with T its type name, and any other field the          *)
(* lookup-table type of its primitive kind, string() when the table does   *)
(* not hold it; every column of a transformed real model carries the type  *)
(* and the optionality so computed for its field.                          *)
(***************************************************************************)
C17_TypeMapping ==
    /\ \A f \in TypedFields :
          /\ mapPrismaTypeToZero(f).isOptional = ~f.isRequired
          /\ mapPrismaTypeToZero(f).type = ExpectedType(f)
    /\ Returned =>
          \A m \in KeptModels :
              \A i \in DOMAIN ScalarColumns(m) :
                  LET f == ScalarColumns(m)[i]
                      c == Get(Transformed(m).columns, f.name)
                  IN  /\ c.isOptional = ~f.isRequired
                      /\ c.type = ExpectedType(f)

\* A returned model with an optional enum column and a column of a primitive
\* kind the lookup table does not hold
C17_Witness ==
    /\ Returned
    /\ \E m \in KeptModels :
          /\ Has(Transformed(m).columns, N_role)
          /\ Get(Transformed(m).columns, N_role).type = ZeroType("enumeration", N_Role)
          /\ Get(Transformed(m).columns, N_role).isOptional
          /\ Has(Transformed(m).columns, N_blob)
          /\ Get(Transformed(m).columns, N_blob).type = ZeroType("string", Null)
          /\ ~Get(Transformed(m).columns, N_blob).isOptional

\* The names of the fields of a list of fields, in order
FieldNames(fields) == [ i \in DOMAIN fields |-> fields[i].name ]

C20_UnresolvableTargetThrows ==
    (\E m \in Range(dmmf.models) :
        \E i \in DOMAIN m.fields :
            IsRelational(m.fields[i]) /\ FindModel(dmmf, m.fields[i].type) = 0)
    => /\ ~Returned
       /\ result = << >>

\* The fields of the target of field i of model m that stand on the other side
\* of the same relation: same relation name, typed by m, and not field i itself
BackReferences(m, i) ==
    LET f == m.fields[i]
        t == dmmf.models[FindModel(dmmf, f.type)]
    IN  { j \in DOMAIN t.fields :
            /\ t.fields[j].relationName = f.relationName
            /\ t.fields[j].type = m.name
            /\ (t.name = m.name => j # i) }

\* Field i of kept model m is relational and its target is a kept model
IsKeptRelation(m, i) ==
    /\ IsRelational(m.fields[i])
    /\ FindModel(dmmf, m.fields[i].type) # 0
    /\ ~Excluded(m.fields[i].type)

(***************************************************************************)
(* C24: for every relational field of a kept model whose target is kept,   *)
(* the relationship descriptor is a chain of two links with type many      *)
(* exactly when the field and its back-reference are both list-typed;      *)
(* otherwise it is a single direct link, of type many when the field is    *)
(* list-typed and of type one when it is not.                              *)
(***************************************************************************)
C24_ChainExactlyForManyToMany ==
    Returned =>
        \A m \in KeptModels :
            \A i \in DOMAIN m.fields :
                IsKeptRelation(m, i) =>
                    LET f == m.fields[i]
                        t == dmmf.models[FindModel(dmmf, f.type)]
                        rel == Get(Transformed(m).relationships, f.name)
                        bothLists ==
                            f.isList /\ \E j \in BackReferences(m, i) : t.fields[j].isList
                    IN  /\ ("chain" \in DOMAIN rel) = bothLists
                        /\ "chain" \in DOMAIN rel => Len(rel.chain) = 2 /\ rel.type = "many"
                        /\ "chain" \notin DOMAIN rel =>
                               rel.type = (IF f.isList THEN "many" ELSE "one")

(***************************************************************************)
(* C25: for a relational field that is not list-typed and declares local   *)
(* keys, on a kept model and towards a kept target, the relationship is a  *)
(* direct link of type one, its sourceField is the resolved names of the   *)
(* local keys, and its destField is the resolved names of the declared     *)
(* target keys, or, when none is declared, the resolved name of the        *)
(* target's identity field.                                                *)
(***************************************************************************)
C25_OneSideWithLocalKeys ==
    Returned =>
        \A m \in KeptModels :
            \A i \in DOMAIN m.fields :
                (/\ IsKeptRelation(m, i)
                 /\ ~m.fields[i].isList
                 /\ m.fields[i].relationFromFields # << >>) =>
                    LET f == m.fields[i]
                        t == dmmf.models[FindModel(dmmf, f.type)]
                        rel == Get(Transformed(m).relationships, f.name)
                    IN  /\ "chain" \notin DOMAIN rel
                        /\ rel.type = "one"
                        /\ rel.sourceField = ResolvedNames(m, f.relationFromFields)
                        /\ f.relationToFields # << >> =>
                               rel.destField = ResolvedNames(t, f.relationToFields)
                        /\ (f.relationToFields = << >> /\ HasIdentity(t)) =>
                               rel.destField = << IdentityColumnName(t) >>

(***************************************************************************)
(* C26: for an implicit many-to-many relation between two different kept   *)
(* models M and T, the chain of M's field leads from M's key to join       *)
(* column X and from join column Y to T's key in T's table, where X is A   *)
(* and Y is B exactly when M's name precedes T's in the ordinal order of   *)
(* their characters, and B and A otherwise; the join model exists, and its *)
(* relationship with sourceField [X] has M's table identifier as           *)
(* destSchema.                                                             *)
(***************************************************************************)
C26_JoinSidesByOrdinalOrder ==
    Returned =>
        \A m, t \in KeptModels :
            \A i \in DOMAIN m.fields :
                (/\ m.name # t.name
                 /\ m.fields[i].type = t.name
                 /\ IsManyToMany(m, m.fields[i])) =>
                    LET rel == Get(Transformed(m).relationships, m.fields[i].name)
                        first == OrdinalCmp(m.name, t.name) < 0
                        X == IF first THEN ColA ELSE ColB
                        Y == IF first THEN ColB ELSE ColA
                        joins == { zj \in JoinModels :
                                     zj.zeroTableName = rel.chain[1].destSchema }
                    IN  /\ Len(rel.chain) = 2
                        /\ rel.chain[1].destField = << X >>
                        /\ rel.chain[2].sourceField = << Y >>
                        /\ rel.chain[2].destSchema = getZeroTableName(t.name)
                        /\ joins # {}
                        /\ \A zj \in joins :
                              \A k \in DOMAIN zj.relationships :
                                  zj.relationships[k].value.sourceField = << X >> =>
                                      zj.relationships[k].value.destSchema =
                                          getZeroTableName(m.name)

DestSchemasOf(zm) ==
    UNION { { Links(zm.relationships[k].value)[l].destSchema :
                l \in DOMAIN Links(zm.relationships[k].value) } :
            k \in DOMAIN zm.relationships }

\* The zeroTableName of the models of the returned schema
ReturnedTableIdentifiers == { zm.zeroTableName : zm \in Range(Schema.models) }

(***************************************************************************)
(* C28: every destSchema of a relationship or of a chain link of the       *)
(* returned schema is the zeroTableName of a model of the returned schema; *)
(* in particular the join model a many-to-many chain leads through, self-  *)
(* referential or not, is among the returned models.                       *)
(***************************************************************************)
C28_DestSchemasReturned ==
    Returned =>
        \A zm \in Range(Schema.models) :
            DestSchemasOf(zm) \subseteq ReturnedTableIdentifiers

(***************************************************************************)
(* C29: the zeroTableName of the models of the returned schema, real and   *)
(* synthesized, are pairwise different whenever the names of the models of *)
(* the input are pairwise different.                                       *)
(***************************************************************************)
C29_TableIdentifiersDistinct ==
    (/\ Returned
     /\ \A i, j \in DOMAIN dmmf.models :
            i # j => dmmf.models[i].name # dmmf.models[j].name)
    => \A i, j \in DOMAIN Schema.models :
            i # j => Schema.models[i].zeroTableName # Schema.models[j].zeroTableName

\* `${model.zeroVariableName}` in the template of generateModelSchema: an
\* undefined value is written as the text undefined
ExportedConstantName(model) ==
    IF model.zeroVariableName = Null
    THEN << "u", "n", "d", "e", "f", "i", "n", "e", "d" >>
    ELSE model.zeroVariableName

\* `${model.typeName}` in the template of generateSchema
ExportedTypeName(model) ==
    IF model.typeName = Null
    THEN << "u", "n", "d", "e", "f", "i", "n", "e", "d" >>
    ELSE model.typeName

(***************************************************************************)
(* C30: every model of the returned schema, real or synthesized, defines   *)
(* zeroVariableName and typeName besides tableName, columns and            *)
(* primaryKey, and neither the table constant nor the row type that        *)
(* generateCode emits for it is named from an undefined value.             *)
(***************************************************************************)
C30_EmitterNamesDefined ==
    Returned =>
        \A zm \in Range(Schema.models) :
            /\ zm.tableName # Null
            /\ zm.columns # << >>
            /\ zm.primaryKey # << >>
            /\ zm.zeroVariableName # Null
            /\ zm.typeName # Null
            /\ ExportedConstantName(zm) # << "u", "n", "d", "e", "f", "i", "n", "e", "d" >>
            /\ ExportedTypeName(zm) # << "u", "n", "d", "e", "f", "i", "n", "e", "d" >>

\* onGenerate cannot get as far as the file system: no output directory, an
\* excludeTables that is not an array, a transformSchema that threw, or a
\* requested prettier that cannot be imported
CannotGenerate ==
    \/ ~Truthy(generation.generator.output)
    \/ generation.generator.config.excludeTables.kind \notin { "undefined", "array" }
    \/ pc = "thrown"
    \/ /\ parseBooleanConfig(generation.generator.config.prettier, FALSE)
       /\ ~generation.prettierInstalled

(***************************************************************************)
(* C21: onGenerate calls mkdir and writeFile only after the configuration  *)
(* is loaded, transformSchema has returned, the code is generated and,     *)
(* when prettier is requested, formatted; with no output directory, an     *)
(* excludeTables that is not an array, a transformation that throws or a   *)
(* prettier that cannot be imported, neither is ever called; mkdir comes   *)
(* before writeFile, and a successful run has called writeFile exactly     *)
(* once.                                                                   *)
(***************************************************************************)
C21_WriteOnlyAfterAll ==
    /\ [](generation.calls # << >> =>
            /\ Truthy(generation.generator.output)
            /\ config # Null
            /\ pc = "returned"
            /\ generation.output.generated
            /\ generation.output.schema = result[1]
            /\ generation.prettier =>
                   generation.prettierInstalled /\ generation.output.formatted)
    /\ [](CannotGenerate => generation.calls = << >>)
    /\ [](generation.calls \in { << >>, << "mkdir" >>, << "mkdir", "writeFile" >> })
    /\ [](generation.pc = "done" => generation.calls = << "mkdir", "writeFile" >>)
    /\ [][generation.calls # << >> => generation'.calls # << >>]_vars

\* A run that formatted the code of two models and their join model, made the
\* directory and wrote the file
C21_Witness ==
    /\ generation.pc = "done"
    /\ generation.calls = << "mkdir", "writeFile" >>
    /\ generation.prettier
    /\ generation.output.formatted
    /\ Len(generation.output.schema.models) = 3

\* The versions written by the runs so far, oldest first
WrittenVersions == [ k \in DOMAIN versioned.history |-> versioned.history[k].version ]

(***************************************************************************)
(* C22: with no schemaVersion configured, and every run reading the        *)
(* schema.ts the run before it wrote, the version a run writes is the      *)
(* version of the run before plus one when the schema hash changed and the *)
(* same version when it did not; it never decreases; and the first run,    *)
(* finding no schema.ts, writes version 1.                                 *)
(***************************************************************************)
C22_AutoIncrement ==
    versioned.generator.config.schemaVersion = Undefined =>
        \A k \in DOMAIN versioned.history :
            LET h == versioned.history
            IN  /\ (k = 1 /\ ~versioned.initial.exists) => h[k].version = 1
                /\ k > 1 =>
                      /\ h[k].version =
                             IF h[k].hash # h[k - 1].hash
                             THEN h[k - 1].version + 1 ELSE h[k - 1].version
                      /\ h[k].version >= h[k - 1].version

(***************************************************************************)
(* C23: with a numeric schemaVersion configured, 0 included, every run     *)
(* writes exactly that number as the version, whatever schema.ts held      *)
(* before and whether or not the schema hash changed.                      *)
(***************************************************************************)
C23_ConfiguredVersion ==
    \A raw \in { versioned.generator.config.schemaVersion } :
        (raw # Undefined /\ raw.text # << >> /\ ~Number(raw.text).nan) =>
            /\ versioned.error # "Schema version must be a number"
            /\ \A k \in DOMAIN versioned.history :
                  versioned.history[k].version = Number(raw.text).value
            /\ versioned.history # << >> =>
                  Occurrences(versioned.file.content,
                              CreateSchemaText \o << " ", " " >> \o raw.text
                                  \o << ",", "\n" >>) # {}

\* schemaVersion is "0", the first run found a schema.ts holding version 5,
\* and two runs over different documents both wrote version 0
C23_Witness ==
    /\ versioned.generator.config.schemaVersion = Str(<< "0" >>)
    /\ versioned.initial.exists
    /\ getCurrentVersion(versioned.initial).version = 5
    /\ Len(versioned.history) >= 2
    /\ versioned.history[1].hash # versioned.history[2].hash
    /\ WrittenVersions[1] = 0
    /\ WrittenVersions[2] = 0
====
